---- MODULE Spec2Model ----
(***************************************************************************)
(* Model of the Chan-theory structural pipeline of hanchangjun/futures:    *)
(*   chan/k_merge.py   merge_klines     (inclusion merger)                 *)
(*   chan/fractal.py   find_fractals    (fractal detector)                 *)
(*   chan/bi.py        find_bi          (stroke builder)                   *)
(*   chan/center.py    find_zhongshu    (center detector)                  *)
(*   strategy/chan_strategy.py  ChanStrategy.run (signal classifier)       *)
(*   strategy/first_class_signal.py  FirstClassSignalDetector              *)
(*   strategy/signal_scorer.py, config/settings.py  scorer and settings    *)
(*   strategy/signal_filter.py  SignalFilter (filter and confirmation)     *)
(*   strategy/real_time.py  run_once (real-time cycle)                     *)
(*   state/signal_state.py, runner/monitor.py  notification cooldown       *)
(*   strategy/chan_core.py  ChanTheorySignalDetector.analyze               *)
(* Every loop of the source is a state machine: one action per iteration   *)
(* branch.  Prices are integers (the code only compares and takes min/max  *)
(* of them); date/open/close are carried by the code but never read by a   *)
(* condition, so bars are modelled by high, low, index and elements.       *)
(***************************************************************************)
EXTENDS Integers, Sequences, FiniteSets, TLC

VARIABLES
    pc,             \* position of the running function
    bars,           \* merge_klines: input List[PriceBar]
    chan_bars,      \* merge_klines: result list / find_fractals: input
    current_trend,  \* merge_klines: running trend flag
    m_i,            \* merge_klines: loop index i
    fractals,       \* find_fractals: result list
    f_i,            \* find_fractals: loop index i
    current_start_fx, \* find_bi: the anchor fractal
    fx,             \* find_bi: the loop variable fx = fractals[i]
    b_n,            \* find_bi: number of fractals consumed so far (i + 1)
    bis,            \* find_bi: result list / find_zhongshu: input
    centers,        \* find_zhongshu: result list
    zs,             \* find_zhongshu: the center being extended
    z_i,            \* find_zhongshu: outer index i
    z_j,            \* find_zhongshu: extension index j
    signals,        \* ChanStrategy.run: result list
    r_i,            \* ChanStrategy.run: loop index i
    res_1b,         \* result of check_1b_conditions (None or its dict)
    res_1s,         \* result of check_1s_conditions (None or its dict)
    current_bi,     \* FirstClassSignalDetector: argument current_bi
    context,        \* FirstClassSignalDetector: argument context
    sig,            \* FirstClassSignalDetector: returned Signal or None
    config_yaml,    \* parsed config.yaml: its scorer weights, or None
    settings,       \* AppConfig held by get_settings, None before loading
    weights,        \* SignalScorer.weights
    signal,         \* the ScorableSignal being scored and filtered
    dimension,      \* calculate_dimension_score: argument dimension
    market_context, \* filter_signal: argument market_context
    result,         \* value returned by the last scorer or filter call
    gates,          \* filter_signal: the checks evaluated, in order
    n_confirm,      \* confirm_signal: number of evaluations so far
    last_signal_time, \* RealTimeTradingSystem.last_signal_time
    sent,           \* RealTimeTradingSystem: times of the signals notified
    n_analyze,      \* RealTimeTradingSystem: calls of strategy.analyze
    n_cycle,        \* RealTimeTradingSystem: run_once cycles so far
    state_file,     \* SignalState: content of the state file, or None
    pushed,         \* MonitorRunner: strong signals notified, in order
    n_run,          \* MonitorRunner: _run_once cycles so far
    args            \* MonitorRunner.args: cooldown_bars

mergeVars == <<bars, current_trend, m_i>>
fxVars == <<fractals, f_i>>
biVars == <<current_start_fx, fx, b_n, bis>>
zsVars == <<centers, zs, z_i, z_j>>
runVars == <<signals, r_i, res_1b, res_1s, current_bi, context, sig>>
filterVars == <<gates, n_confirm>>
rtVars == <<last_signal_time, sent, n_analyze, n_cycle>>
monVars == <<state_file, pushed, n_run, args>>
scoreVars == <<config_yaml, settings, weights, signal, dimension,
               market_context, result, filterVars, rtVars, monVars>>
vars == <<pc, bars, chan_bars, current_trend, m_i, fractals, f_i,
          current_start_fx, fx, b_n, bis, centers, zs, z_i, z_j, signals, r_i,
          res_1b, res_1s, current_bi, context, sig, config_yaml, settings,
          weights, signal, dimension, market_context, result, gates,
          n_confirm, last_signal_time, sent, n_analyze, n_cycle, state_file,
          pushed, n_run, args>>

\* ------------------------------------------------------------------ bounds
MaxBars == 4        \* longest raw bar sequence fed to merge_klines
MaxPrice == 3       \* raw bar prices range over 1..MaxPrice
MaxFBars == 4       \* longest bar sequence fed to find_fractals
MaxFPrice == 3      \* prices of the bars fed to find_fractals
MaxFx == 4          \* longest fractal sequence fed to find_bi
MaxFxPrice == 3     \* prices of the fractals fed to find_bi
MaxStrokes == 6     \* longest stroke sequence fed to find_zhongshu
MaxRunStrokes == 6  \* longest stroke sequence analysed by ChanStrategy.run
MaxCallStrokes == 7 \* longest stroke list passed to check_1b/1s_conditions
MaxZhongshu == 2    \* longest context['zhongshu_list'] passed to detect_1B/1S
MaxPullStrokes == 5 \* longest context['bi_list'] passed to detect_2B/2S
MaxLeaveStrokes == 4 \* longest context['bi_list'] passed to detect_3B/3S

\* ------------------------------------------------------------------ helpers
Max2(a, b) == IF a >= b THEN a ELSE b
Min2(a, b) == IF a <= b THEN a ELSE b

SeqsUpTo(S, n) == UNION {[1..k -> S] : k \in 0..n}

\* PriceBar restricted to the fields the pipeline reads (high >= low).
PriceBars(P) == {b \in [high : 1..P, low : 1..P] : b.low <= b.high}

\* ChanBar(index, high, low, elements); raw indices are 0-based as in Python.
ChanBar(idx, h, l, els) == [index |-> idx, high |-> h, low |-> l, elements |-> els]

\* ---------------------------------------------------------------- k_merge
\* is_inclusive of merge_klines: raw inside prev, or prev inside raw.
IsInclusive(raw, prev) ==
    \/ (raw.high <= prev.high /\ raw.low >= prev.low)
    \/ (prev.high <= raw.high /\ prev.low >= raw.low)

\* A fold that keeps the envelope of both bars whatever the trend.
FoldBarEnvelope(prev, raw, trend, i) ==
    ChanBar(i, Max2(prev.high, raw.high), Min2(prev.low, raw.low),
            Append(prev.elements, i))

\* A fold that updates the prices and forgets the constituent.
FoldBarWithoutElement(prev, raw, trend, i) ==
    IF trend = "UP"
    THEN ChanBar(i, Max2(prev.high, raw.high), Max2(prev.low, raw.low), prev.elements)
    ELSE ChanBar(i, Min2(prev.high, raw.high), Min2(prev.low, raw.low), prev.elements)

\* The fold of an included raw bar into the last ChanBar.
FoldBar(prev, raw, trend, i) ==
    IF trend = "UP"
    THEN ChanBar(i, Max2(prev.high, raw.high), Max2(prev.low, raw.low),
                 Append(prev.elements, i))
    ELSE ChanBar(i, Min2(prev.high, raw.high), Min2(prev.low, raw.low),
                 Append(prev.elements, i))

\* The trend after a non-included bar.
NewTrend(prev, raw, trend) ==
    IF raw.high > prev.high /\ raw.low > prev.low THEN "UP"
    ELSE IF raw.high < prev.high /\ raw.low < prev.low THEN "DOWN"
    ELSE trend

\* One iteration of the for loop of merge_klines on raw bar number i.
MergeStep(cb, trend, raw, i) ==
    LET prev == cb[Len(cb)] IN
    IF IsInclusive(raw, prev)
    THEN [bars |-> [cb EXCEPT ![Len(cb)] = FoldBar(prev, raw, trend, i)],
          trend |-> trend]
    ELSE [bars |-> Append(cb, ChanBar(i, raw.high, raw.low, <<i>>)),
          trend |-> NewTrend(prev, raw, trend)]

\* merge_klines as a whole, on a list of bars (used to re-run it on its output).
RECURSIVE MergeFrom(_, _, _, _)
MergeFrom(cb, trend, rest, i) ==
    IF rest = <<>> THEN cb
    ELSE LET r == MergeStep(cb, trend, Head(rest), i)
         IN MergeFrom(r.bars, r.trend, Tail(rest), i + 1)

merge_klines(bs) ==
    IF Len(bs) < 2 THEN <<>>
    ELSE MergeFrom(<<ChanBar(0, bs[1].high, bs[1].low, <<0>>)>>, "UP", Tail(bs), 1)

\* len(bars) < 2: return []
MergeTooShort ==
    /\ pc = "merge_start"
    /\ Len(bars) < 2
    /\ chan_bars' = <<>>
    /\ pc' = "merge_done"
    /\ UNCHANGED <<scoreVars, mergeVars, fxVars, biVars, zsVars, runVars>>

\* first ChanBar from bars[0]; current_trend = Trend.UP
MergeFirst ==
    /\ pc = "merge_start"
    /\ Len(bars) >= 2
    /\ chan_bars' = <<ChanBar(0, bars[1].high, bars[1].low, <<0>>)>>
    /\ current_trend' = "UP"
    /\ m_i' = 1
    /\ pc' = "merge_loop"
    /\ UNCHANGED <<scoreVars, bars, fxVars, biVars, zsVars, runVars>>

\* loop body, inclusive branch: the last ChanBar is updated in place
MergeInclude ==
    /\ pc = "merge_loop"
    /\ m_i < Len(bars)
    /\ IsInclusive(bars[m_i + 1], chan_bars[Len(chan_bars)])
    /\ LET r == MergeStep(chan_bars, current_trend, bars[m_i + 1], m_i)
       IN /\ chan_bars' = r.bars
          /\ current_trend' = r.trend
    /\ m_i' = m_i + 1
    /\ UNCHANGED <<scoreVars, pc, bars, fxVars, biVars, zsVars, runVars>>

\* loop body, non-inclusive branch: trend is re-determined, a new ChanBar appended
MergeAppend ==
    /\ pc = "merge_loop"
    /\ m_i < Len(bars)
    /\ ~IsInclusive(bars[m_i + 1], chan_bars[Len(chan_bars)])
    /\ LET r == MergeStep(chan_bars, current_trend, bars[m_i + 1], m_i)
       IN /\ chan_bars' = r.bars
          /\ current_trend' = r.trend
    /\ m_i' = m_i + 1
    /\ UNCHANGED <<scoreVars, pc, bars, fxVars, biVars, zsVars, runVars>>

\* return chan_bars
MergeReturn ==
    /\ pc = "merge_loop"
    /\ m_i = Len(bars)
    /\ pc' = "merge_done"
    /\ UNCHANGED <<scoreVars, bars, chan_bars, current_trend, m_i, fxVars, biVars, zsVars, runVars>>

\* ---------------------------------------------------------------- fractal
\* Fractal(type, index, price, high, low); index is the 0-based ChanBar position.
Fractal(t, i, curr) ==
    [type |-> t, index |-> i,
     price |-> IF t = "TOP" THEN curr.high ELSE curr.low,
     high |-> curr.high, low |-> curr.low]

\* A top test that looks at the highs only.
IsTopHighOnly(left, curr, right) ==
    curr.high > left.high /\ curr.high > right.high

\* find_fractals, top branch condition
IsTopFractal(left, curr, right) ==
    /\ curr.high > left.high /\ curr.high > right.high
    /\ curr.low > left.low /\ curr.low > right.low

\* find_fractals, bottom branch condition (the elif: only when not a top)
IsBottomFractal(left, curr, right) ==
    /\ curr.low < left.low /\ curr.low < right.low
    /\ curr.high < left.high /\ curr.high < right.high

\* fractals = []; if len(bars) < 3: return fractals
FxTooShort ==
    /\ pc = "fx_start"
    /\ Len(chan_bars) < 3
    /\ fractals' = <<>>
    /\ pc' = "fx_done"
    /\ UNCHANGED <<scoreVars, chan_bars, f_i, mergeVars, biVars, zsVars, runVars>>

\* entering for i in range(1, len(bars) - 1)
FxBegin ==
    /\ pc = "fx_start"
    /\ Len(chan_bars) >= 3
    /\ fractals' = <<>>
    /\ f_i' = 1
    /\ pc' = "fx_loop"
    /\ UNCHANGED <<scoreVars, chan_bars, mergeVars, biVars, zsVars, runVars>>

\* loop body: bars[i] is a top fractal
FxTop ==
    /\ pc = "fx_loop"
    /\ f_i < Len(chan_bars) - 1
    /\ IsTopFractal(chan_bars[f_i], chan_bars[f_i + 1], chan_bars[f_i + 2])
    /\ fractals' = Append(fractals, Fractal("TOP", f_i, chan_bars[f_i + 1]))
    /\ f_i' = f_i + 1
    /\ UNCHANGED <<scoreVars, pc, chan_bars, mergeVars, biVars, zsVars, runVars>>

\* loop body: bars[i] is a bottom fractal
FxBottom ==
    /\ pc = "fx_loop"
    /\ f_i < Len(chan_bars) - 1
    /\ ~IsTopFractal(chan_bars[f_i], chan_bars[f_i + 1], chan_bars[f_i + 2])
    /\ IsBottomFractal(chan_bars[f_i], chan_bars[f_i + 1], chan_bars[f_i + 2])
    /\ fractals' = Append(fractals, Fractal("BOTTOM", f_i, chan_bars[f_i + 1]))
    /\ f_i' = f_i + 1
    /\ UNCHANGED <<scoreVars, pc, chan_bars, mergeVars, biVars, zsVars, runVars>>

\* loop body: bars[i] is neither
FxNone ==
    /\ pc = "fx_loop"
    /\ f_i < Len(chan_bars) - 1
    /\ ~IsTopFractal(chan_bars[f_i], chan_bars[f_i + 1], chan_bars[f_i + 2])
    /\ ~IsBottomFractal(chan_bars[f_i], chan_bars[f_i + 1], chan_bars[f_i + 2])
    /\ f_i' = f_i + 1
    /\ UNCHANGED <<scoreVars, pc, chan_bars, fractals, mergeVars, biVars, zsVars, runVars>>

\* return fractals
FxReturn ==
    /\ pc = "fx_loop"
    /\ f_i >= Len(chan_bars) - 1
    /\ pc' = "fx_done"
    /\ UNCHANGED <<scoreVars, chan_bars, fractals, f_i, mergeVars, biVars, zsVars, runVars>>

\* --------------------------------------------------------------------- bi
MinBiGap == 4

NoFx == [type |-> "NONE", index |-> 0, price |-> 0, high |-> 0, low |-> 0]

\* Bi(start_fx, end_fx, type) with macd_area = 0.0 until the dynamics pass.
Bi(s, e, t) == [start_fx |-> s, end_fx |-> e, type |-> t, macd_area |-> 0]

\* Bi.direction
Direction(b) ==
    IF b.start_fx.type = "BOTTOM" /\ b.end_fx.type = "TOP" THEN "UP"
    ELSE IF b.start_fx.type = "TOP" /\ b.end_fx.type = "BOTTOM" THEN "DOWN"
    ELSE "NONE"

\* Bi.high and Bi.low
BiHigh(b) == Max2(b.start_fx.high, b.end_fx.high)
BiLow(b) == Min2(b.start_fx.low, b.end_fx.low)

\* The fractals that may follow one at index `last` in the input list: the
\* detector emits them in strictly increasing index order; the next one is
\* taken just below or just at the minimum stroke distance.
FxAfter(last, first) ==
    {Fractal(t, i, b) :
        t \in {"TOP", "BOTTOM"},
        i \in (IF first THEN {1} ELSE {last + MinBiGap - 1, last + MinBiGap}),
        b \in PriceBars(MaxFxPrice)}

\* same-kind fractal: is it strictly more extreme than the anchor
MoreExtreme(f, anchor) ==
    IF f.type = "TOP" THEN f.high > anchor.high ELSE f.low < anchor.low

\* A distance test that lets fractals three bars apart through.
FarEnoughOffByOne(f, anchor) == f.index - anchor.index >= MinBiGap - 1

\* 1. distance check passes
FarEnough(f, anchor) == ~(f.index - anchor.index < MinBiGap)

\* 2. high/low check passes
PriceOrdered(f, anchor) ==
    IF anchor.type = "BOTTOM" /\ f.type = "TOP" THEN ~(f.high <= anchor.low)
    ELSE IF anchor.type = "TOP" /\ f.type = "BOTTOM" THEN ~(f.low >= anchor.high)
    ELSE FALSE

\* if not fractals: return bis
BiEmpty ==
    /\ pc = "bi_start"
    /\ bis' = <<>>
    /\ pc' = "bi_done"
    /\ UNCHANGED <<scoreVars, current_start_fx, fx, b_n, chan_bars, mergeVars, fxVars, zsVars, runVars>>

\* current_start_fx = fractals[0]
BiFirst ==
    /\ pc = "bi_start"
    /\ \E nx \in FxAfter(0, TRUE) :
          /\ current_start_fx' = nx
          /\ fx' = nx /\ b_n' = 1
    /\ bis' = <<>>
    /\ pc' = "bi_loop"
    /\ UNCHANGED <<scoreVars, chan_bars, mergeVars, fxVars, zsVars, runVars>>

\* same kind, more extreme: the anchor moves to fx
BiReplaceAnchor ==
    /\ pc = "bi_loop"
    /\ b_n < MaxFx
    /\ \E nx \in FxAfter(fx.index, FALSE) :
          /\ nx.type = current_start_fx.type
          /\ MoreExtreme(nx, current_start_fx)
          /\ current_start_fx' = nx
          /\ fx' = nx /\ b_n' = b_n + 1
    /\ UNCHANGED <<scoreVars, pc, bis, chan_bars, mergeVars, fxVars, zsVars, runVars>>

\* same kind, not more extreme: continue
BiKeepAnchor ==
    /\ pc = "bi_loop"
    /\ b_n < MaxFx
    /\ \E nx \in FxAfter(fx.index, FALSE) :
          /\ nx.type = current_start_fx.type
          /\ ~MoreExtreme(nx, current_start_fx)
          /\ fx' = nx /\ b_n' = b_n + 1
    /\ UNCHANGED <<scoreVars, pc, current_start_fx, bis, chan_bars, mergeVars, fxVars, zsVars, runVars>>

\* opposite kind, fewer than four bars from the anchor: continue
BiTooClose ==
    /\ pc = "bi_loop"
    /\ b_n < MaxFx
    /\ \E nx \in FxAfter(fx.index, FALSE) :
          /\ nx.type # current_start_fx.type
          /\ ~FarEnough(nx, current_start_fx)
          /\ fx' = nx /\ b_n' = b_n + 1
    /\ UNCHANGED <<scoreVars, pc, current_start_fx, bis, chan_bars, mergeVars, fxVars, zsVars, runVars>>

\* opposite kind, far enough, wrong price order: continue
BiPriceReject ==
    /\ pc = "bi_loop"
    /\ b_n < MaxFx
    /\ \E nx \in FxAfter(fx.index, FALSE) :
          /\ nx.type # current_start_fx.type
          /\ FarEnough(nx, current_start_fx)
          /\ ~PriceOrdered(nx, current_start_fx)
          /\ fx' = nx /\ b_n' = b_n + 1
    /\ UNCHANGED <<scoreVars, pc, current_start_fx, bis, chan_bars, mergeVars, fxVars, zsVars, runVars>>

\* opposite kind, far enough, price ordered: a Bi is appended, fx is the anchor
BiEmit ==
    /\ pc = "bi_loop"
    /\ b_n < MaxFx
    /\ \E nx \in FxAfter(fx.index, FALSE) :
          /\ nx.type # current_start_fx.type
          /\ FarEnough(nx, current_start_fx)
          /\ PriceOrdered(nx, current_start_fx)
          /\ bis' = Append(bis, Bi(current_start_fx, nx,
                                   IF nx.type = "TOP" THEN "UP" ELSE "DOWN"))
          /\ current_start_fx' = nx
          /\ fx' = nx /\ b_n' = b_n + 1
    /\ UNCHANGED <<scoreVars, pc, chan_bars, mergeVars, fxVars, zsVars, runVars>>

\* the list is exhausted: return bis
BiReturn ==
    /\ pc = "bi_loop"
    /\ pc' = "bi_done"
    /\ UNCHANGED <<scoreVars, current_start_fx, fx, b_n, bis, chan_bars, mergeVars, fxVars, zsVars, runVars>>

\* ----------------------------------------------------------------- center
\* ZhongShu(start_bi_index, end_bi_index, zg, zd, direction)
ZhongShu(s, e, g, d, dir) ==
    [start_bi_index |-> s, end_bi_index |-> e, zg |-> g, zd |-> d, direction |-> dir]

NoZs == ZhongShu(0, 0, 0, 0, "NONE")

\* bis[i] with Python's 0-based index
BiAt(bs, i) == bs[i + 1]

Min3(a, b, c) == Min2(a, Min2(b, c))
Max3(a, b, c) == Max2(a, Max2(b, c))

\* zg = min(highs), zd = max(lows) of bis[i], bis[i+1], bis[i+2]
ZG(bs, i) == Min3(BiHigh(BiAt(bs, i)), BiHigh(BiAt(bs, i + 1)), BiHigh(BiAt(bs, i + 2)))
ZD(bs, i) == Max3(BiLow(BiAt(bs, i)), BiLow(BiAt(bs, i + 1)), BiLow(BiAt(bs, i + 2)))

\* An overlap test that wants the stroke to lie inside [zd, zg].
IsInside(bn, c) == BiLow(bn) >= c.zd /\ BiHigh(bn) <= c.zg

\* is_overlap: [bn.low, bn.high] meets [zd, zg]
IsOverlap(bn, c) == ~(BiHigh(bn) < c.zd \/ BiLow(bn) > c.zg)

\* A validity test that accepts a window with zg >= zd.
IsValidWindowLoose(bs, i) == ZG(bs, i) >= ZD(bs, i)

\* if zg > zd
IsValidWindow(bs, i) == ZG(bs, i) > ZD(bs, i)

\* A resumption that restarts right after the window's first stroke.
ResumeAfterFirst(c, j) == c.start_bi_index + 1

\* i = j: the outer scan resumes at the stroke that left the center
ResumeAt(c, j) == j

\* centers = []; if len(bis) < 3: return centers
ZsTooShort ==
    /\ pc = "zs_start"
    /\ Len(bis) < 3
    /\ centers' = <<>>
    /\ pc' = "zs_done"
    /\ UNCHANGED <<scoreVars, zs, z_i, z_j, bis, chan_bars, mergeVars, fxVars,
                   current_start_fx, fx, b_n, runVars>>

\* i = 0; entering while i <= len(bis) - 3
ZsBegin ==
    /\ pc = "zs_start"
    /\ Len(bis) >= 3
    /\ centers' = <<>>
    /\ z_i' = 0
    /\ pc' = "zs_scan"
    /\ UNCHANGED <<scoreVars, zs, z_j, bis, chan_bars, mergeVars, fxVars,
                   current_start_fx, fx, b_n, runVars>>

\* zg <= zd: i += 1
ZsNoCenter ==
    /\ pc = "zs_scan"
    /\ z_i <= Len(bis) - 3
    /\ ~IsValidWindow(bis, z_i)
    /\ z_i' = z_i + 1
    /\ UNCHANGED <<scoreVars, pc, centers, zs, z_j, bis, chan_bars, mergeVars, fxVars,
                   current_start_fx, fx, b_n, runVars>>

\* zg > zd: a ZhongShu over bis[i..i+2] is opened; j = i + 3
ZsOpen ==
    /\ pc = "zs_scan"
    /\ z_i <= Len(bis) - 3
    /\ IsValidWindow(bis, z_i)
    /\ zs' = ZhongShu(z_i, z_i + 2, ZG(bis, z_i), ZD(bis, z_i),
                      Direction(BiAt(bis, z_i)))
    /\ z_j' = z_i + 3
    /\ pc' = "zs_extend"
    /\ UNCHANGED <<scoreVars, centers, z_i, bis, chan_bars, mergeVars, fxVars,
                   current_start_fx, fx, b_n, runVars>>

\* bis[j] overlaps [zd, zg]: zs.end_bi_index = j; j += 1
ZsExtend ==
    /\ pc = "zs_extend"
    /\ z_j < Len(bis)
    /\ IsOverlap(BiAt(bis, z_j), zs)
    /\ zs' = [zs EXCEPT !.end_bi_index = z_j]
    /\ z_j' = z_j + 1
    /\ UNCHANGED <<scoreVars, pc, centers, z_i, bis, chan_bars, mergeVars, fxVars,
                   current_start_fx, fx, b_n, runVars>>

\* bis[j] does not overlap (break), or j ran off the list:
\* centers.append(zs); i = j
ZsClose ==
    /\ pc = "zs_extend"
    /\ z_j < Len(bis) => ~IsOverlap(BiAt(bis, z_j), zs)
    /\ centers' = Append(centers, zs)
    /\ z_i' = ResumeAt(zs, z_j)
    /\ pc' = "zs_scan"
    /\ UNCHANGED <<scoreVars, zs, z_j, bis, chan_bars, mergeVars, fxVars,
                   current_start_fx, fx, b_n, runVars>>

\* return centers
ZsReturn ==
    /\ pc = "zs_scan"
    /\ ~(z_i <= Len(bis) - 3)
    /\ pc' = "zs_done"
    /\ UNCHANGED <<scoreVars, centers, zs, z_i, z_j, bis, chan_bars, mergeVars, fxVars,
                   current_start_fx, fx, b_n, runVars>>

\* ------------------------------------------------------- specifications
\* Python's None
None == [type |-> "None"]

\* no signal test has been called yet
NoMonitoring ==
    /\ gates = <<>>
    /\ n_confirm = 0
    /\ last_signal_time = None
    /\ sent = <<>>
    /\ n_analyze = 0
    /\ n_cycle = 0
    /\ state_file = None
    /\ pushed = <<>>
    /\ n_run = 0
    /\ args = None

NoScoring ==
    /\ NoMonitoring
    /\ config_yaml = None
    /\ settings = None
    /\ weights = None
    /\ signal = None
    /\ dimension = None
    /\ market_context = None
    /\ result = None

NoCalls ==
    /\ res_1b = None
    /\ res_1s = None
    /\ current_bi = None
    /\ context = None
    /\ sig = None

InitMerge ==
    /\ NoScoring
    /\ pc = "merge_start"
    /\ bars \in SeqsUpTo(PriceBars(MaxPrice), MaxBars)
    /\ chan_bars = <<>>
    /\ current_trend = "UP"
    /\ m_i = 0
    /\ fractals = <<>>
    /\ f_i = 0
    /\ current_start_fx = NoFx
    /\ fx = NoFx
    /\ b_n = 0
    /\ bis = <<>>
    /\ centers = <<>>
    /\ zs = NoZs
    /\ z_i = 0
    /\ z_j = 0
    /\ signals = <<>>
    /\ r_i = 0
    /\ NoCalls

NextMerge == MergeTooShort \/ MergeFirst \/ MergeInclude \/ MergeAppend \/ MergeReturn

SpecMerge == InitMerge /\ [][NextMerge]_vars

\* find_fractals on any list of ChanBars (as tests/test_chan_core.py calls it)
InitFractal ==
    /\ NoScoring
    /\ pc = "fx_start"
    /\ bars = <<>>
    /\ \E bs \in SeqsUpTo(PriceBars(MaxFPrice), MaxFBars) :
          chan_bars = [k \in 1..Len(bs) |-> ChanBar(k - 1, bs[k].high, bs[k].low, <<k - 1>>)]
    /\ current_trend = "UP"
    /\ m_i = 0
    /\ fractals = <<>>
    /\ f_i = 0
    /\ current_start_fx = NoFx
    /\ fx = NoFx
    /\ b_n = 0
    /\ bis = <<>>
    /\ centers = <<>>
    /\ zs = NoZs
    /\ z_i = 0
    /\ z_j = 0
    /\ signals = <<>>
    /\ r_i = 0
    /\ NoCalls

NextFractal == FxTooShort \/ FxBegin \/ FxTop \/ FxBottom \/ FxNone \/ FxReturn

SpecFractal == InitFractal /\ [][NextFractal]_vars

\* find_bi on any fractal list with increasing indices
InitBi ==
    /\ NoScoring
    /\ pc = "bi_start"
    /\ bars = <<>>
    /\ chan_bars = <<>>
    /\ current_trend = "UP"
    /\ m_i = 0
    /\ fractals = <<>>
    /\ f_i = 0
    /\ current_start_fx = NoFx
    /\ fx = NoFx
    /\ b_n = 0
    /\ bis = <<>>
    /\ centers = <<>>
    /\ zs = NoZs
    /\ z_i = 0
    /\ z_j = 0
    /\ signals = <<>>
    /\ r_i = 0
    /\ NoCalls

NextBi ==
    \/ BiEmpty \/ BiFirst \/ BiReplaceAnchor \/ BiKeepAnchor
    \/ BiTooClose \/ BiPriceReject \/ BiEmit \/ BiReturn

SpecBi == InitBi /\ [][NextBi]_vars

\* A stroke of the given direction spanning [lo, hi], number k of its list.
MkStroke(dir, lo, hi, k) ==
    LET top == Fractal("TOP", 0, [high |-> hi, low |-> hi])
        bot == Fractal("BOTTOM", 0, [high |-> lo, low |-> lo])
    IN  IF dir = "UP"
        THEN Bi([bot EXCEPT !.index = 4 * k - 3], [top EXCEPT !.index = 4 * k + 1], "UP")
        ELSE Bi([top EXCEPT !.index = 4 * k - 3], [bot EXCEPT !.index = 4 * k + 1], "DOWN")

Flip(dir) == IF dir = "UP" THEN "DOWN" ELSE "UP"

\* The stroke list of alternating direction, starting with d, whose spans are sh.
StrokeList(sh, d) ==
    [k \in 1..Len(sh) |->
        MkStroke(IF k % 2 = 1 THEN d ELSE Flip(d), sh[k][1], sh[k][2], k)]

\* Spans [lo, hi] with lo < hi over four price levels.
StrokeSpans == {<<lo, hi>> : lo \in 1..3, hi \in 2..4} \ {<<2, 2>>, <<3, 2>>, <<3, 3>>}

\* find_zhongshu on any alternating stroke list
InitCenter ==
    /\ NoScoring
    /\ pc = "zs_start"
    /\ bars = <<>>
    /\ chan_bars = <<>>
    /\ current_trend = "UP"
    /\ m_i = 0
    /\ fractals = <<>>
    /\ f_i = 0
    /\ current_start_fx = NoFx
    /\ fx = NoFx
    /\ b_n = 0
    /\ \E sh \in SeqsUpTo(StrokeSpans, MaxStrokes), d \in {"UP", "DOWN"} :
          bis = StrokeList(sh, d)
    /\ centers = <<>>
    /\ zs = NoZs
    /\ z_i = 0
    /\ z_j = 0
    /\ signals = <<>>
    /\ r_i = 0
    /\ NoCalls

NextCenter == ZsTooShort \/ ZsBegin \/ ZsNoCenter \/ ZsOpen \/ ZsExtend \/ ZsClose \/ ZsReturn

SpecCenter == InitCenter /\ [][NextCenter]_vars


\* ------------------------------------------------- center.py as a function
\* the extension loop from j on: the center reached and the index it stopped at
RECURSIVE ExtendFrom(_, _, _)
ExtendFrom(bs, c, j) ==
    IF j < Len(bs) /\ IsOverlap(BiAt(bs, j), c)
    THEN ExtendFrom(bs, [c EXCEPT !.end_bi_index = j], j + 1)
    ELSE [zs |-> c, j |-> j]

\* the outer while loop from i on, cs being the centers found so far
RECURSIVE ScanFrom(_, _, _)
ScanFrom(bs, i, cs) ==
    IF ~(i <= Len(bs) - 3) THEN cs
    ELSE IF IsValidWindow(bs, i)
         THEN LET r == ExtendFrom(bs, ZhongShu(i, i + 2, ZG(bs, i), ZD(bs, i),
                                               Direction(BiAt(bs, i))), i + 3)
              IN  ScanFrom(bs, ResumeAt(r.zs, r.j), Append(cs, r.zs))
         ELSE ScanFrom(bs, i + 1, cs)

find_zhongshu(bs) == IF Len(bs) < 3 THEN <<>> ELSE ScanFrom(bs, 0, <<>>)

\* --------------------------------------------------------- chan_strategy
\* the element found by `for c in reversed(cs): if P(c): ...; break`
\* S holding the positions of the elements that satisfy P
LastMatch(cs, S) ==
    IF S = {} THEN None ELSE cs[CHOOSE k \in S : \A m \in S : m <= k]

\* c.end_bi_index == target_end_idx
EndsAt(c, target_end_idx) == c.end_bi_index = target_end_idx

\* some earlier center lies higher than last_center (strictly or loosely)
HasPrevCenterBelow(cs, last_center) ==
    \E k \in 1..Len(cs) :
        /\ cs[k].end_bi_index < last_center.start_bi_index
        /\ (cs[k].zd > last_center.zg \/ cs[k].zd > last_center.zd)

\* some earlier center lies lower than last_center (strictly or loosely)
HasPrevCenterAbove(cs, last_center) ==
    \E k \in 1..Len(cs) :
        /\ cs[k].end_bi_index < last_center.start_bi_index
        /\ (cs[k].zg < last_center.zd \/ cs[k].zg < last_center.zg)

\* the new low is tested against the center only
IsNewLowZdOnly(curr_bi, last_center, enter_bi) == BiLow(curr_bi) < last_center.zd

\* curr_bi.low < last_center.zd and curr_bi.low < enter_bi.low
IsNewLow(curr_bi, last_center, enter_bi) ==
    BiLow(curr_bi) < last_center.zd /\ BiLow(curr_bi) < BiLow(enter_bi)

\* curr_bi.high > last_center.zg and curr_bi.high > enter_bi.high
IsNewHigh(curr_bi, last_center, enter_bi) ==
    BiHigh(curr_bi) > last_center.zg /\ BiHigh(curr_bi) > BiHigh(enter_bi)

\* the comparison turned round
IsAreaDivergenceReversed(curr_area, enter_area) == 10 * curr_area > 7 * enter_area

\* curr_bi.macd_area < enter_bi.macd_area * 0.7
IsAreaDivergence(curr_area, enter_area) == 10 * curr_area < 7 * enter_area

\* check_1b_conditions; of the returned dict the type and is_trend are kept
check_1b_conditions(curr_bi_idx, bs, cs) ==
    LET curr_bi == BiAt(bs, curr_bi_idx)
        target_end_idx == curr_bi_idx - 1
        last_center == LastMatch(cs, {k \in 1..Len(cs) : EndsAt(cs[k], target_end_idx)})
    IN  IF Direction(curr_bi) # "DOWN" THEN None
        ELSE IF last_center = None THEN None
        ELSE LET is_trend == HasPrevCenterBelow(cs, last_center)
                 enter_bi_idx == last_center.start_bi_index - 1
             IN  IF enter_bi_idx < 0 THEN None
                 ELSE LET enter_bi == BiAt(bs, enter_bi_idx)
                      IN  IF ~IsNewLow(curr_bi, last_center, enter_bi) THEN None
                          ELSE IF ~IsAreaDivergence(curr_bi.macd_area,
                                                    enter_bi.macd_area) THEN None
                          ELSE [type |-> "1B", is_trend |-> is_trend]

\* check_1s_conditions, the mirror image
check_1s_conditions(curr_bi_idx, bs, cs) ==
    LET curr_bi == BiAt(bs, curr_bi_idx)
        target_end_idx == curr_bi_idx - 1
        last_center == LastMatch(cs, {k \in 1..Len(cs) : EndsAt(cs[k], target_end_idx)})
    IN  IF Direction(curr_bi) # "UP" THEN None
        ELSE IF last_center = None THEN None
        ELSE LET is_trend == HasPrevCenterAbove(cs, last_center)
                 enter_bi_idx == last_center.start_bi_index - 1
             IN  IF enter_bi_idx < 0 THEN None
                 ELSE LET enter_bi == BiAt(bs, enter_bi_idx)
                      IN  IF ~IsNewHigh(curr_bi, last_center, enter_bi) THEN None
                          ELSE IF ~IsAreaDivergence(curr_bi.macd_area,
                                                    enter_bi.macd_area) THEN None
                          ELSE [type |-> "1S", is_trend |-> is_trend]


\* the dict run() appends; dt (the end fractal's date) is the fractal's index
Signal(t, curr_bi) ==
    [type |-> t, price |-> curr_bi.end_fx.price, dt |-> curr_bi.end_fx.index]

\* candidate_bi = bis[i-2] against pre_candidate_bi = bis[i-4]
is_1b_candidate(bs, i) ==
    LET candidate_bi == BiAt(bs, i - 2)
        pre_candidate_bi == BiAt(bs, i - 4)
    IN  /\ Direction(candidate_bi) = Direction(pre_candidate_bi)
        /\ candidate_bi.macd_area < pre_candidate_bi.macd_area
        /\ Direction(candidate_bi) = "DOWN"
        /\ BiLow(candidate_bi) < BiLow(pre_candidate_bi)

is_1s_candidate(bs, i) ==
    LET candidate_bi == BiAt(bs, i - 2)
        pre_candidate_bi == BiAt(bs, i - 4)
    IN  /\ Direction(candidate_bi) = Direction(pre_candidate_bi)
        /\ candidate_bi.macd_area < pre_candidate_bi.macd_area
        /\ ~(Direction(candidate_bi) = "DOWN"
                /\ BiLow(candidate_bi) < BiLow(pre_candidate_bi))
        /\ Direction(candidate_bi) = "UP"
        /\ BiHigh(candidate_bi) > BiHigh(pre_candidate_bi)

\* Check 2B: the pullback holds above the candidate's low
Is2B(bs, i) ==
    /\ i >= 4
    /\ Direction(BiAt(bs, i)) = "DOWN" /\ is_1b_candidate(bs, i)
    /\ BiLow(BiAt(bs, i)) > BiLow(BiAt(bs, i - 2))

\* Check 2S: the pullback holds below the candidate's high
Is2S(bs, i) ==
    /\ i >= 4
    /\ Direction(BiAt(bs, i)) = "UP" /\ is_1s_candidate(bs, i)
    /\ BiHigh(BiAt(bs, i)) < BiHigh(BiAt(bs, i - 2))

\* c.end_bi_index < i
EndsBeforeCurrent(c, i) == c.end_bi_index < i

\* c.end_bi_index < i - 1
EndsBeforeLeaving(c, i) == c.end_bi_index < i - 1

\* valid_center: the last center that ended before the leaving stroke i-1
valid_center(cs, i) == LastMatch(cs, {k \in 1..Len(cs) : EndsBeforeLeaving(cs[k], i)})

\* 3B: leaving stroke i-1 is UP and breaks zg, the pullback stays above zg
Is3B(bs, cs, i) ==
    LET vc == valid_center(cs, i)
    IN  /\ vc # None
        /\ Direction(BiAt(bs, i)) = "DOWN"
        /\ Direction(BiAt(bs, i - 1)) = "UP" /\ BiHigh(BiAt(bs, i - 1)) > vc.zg
        /\ BiLow(BiAt(bs, i)) > vc.zg

\* 3S: leaving stroke i-1 is DOWN and breaks zd, the pullback stays below zd
Is3S(bs, cs, i) ==
    LET vc == valid_center(cs, i)
    IN  /\ vc # None
        /\ Direction(BiAt(bs, i)) # "DOWN" /\ Direction(BiAt(bs, i)) = "UP"
        /\ Direction(BiAt(bs, i - 1)) = "DOWN" /\ BiLow(BiAt(bs, i - 1)) < vc.zd
        /\ BiHigh(BiAt(bs, i)) < vc.zd

\* the signals one iteration of the loop appends, in order
StepSignals(bs, cs, i) ==
    LET curr_bi == BiAt(bs, i)
        Opt(c, t) == IF c THEN <<Signal(t, curr_bi)>> ELSE <<>>
    IN  Opt(check_1b_conditions(i, bs, cs) # None, "1B")
        \o Opt(check_1s_conditions(i, bs, cs) # None, "1S")
        \o Opt(Is2B(bs, i), "2B") \o Opt(Is2S(bs, i), "2S")
        \o Opt(Is3B(bs, cs, i), "3B") \o Opt(Is3S(bs, cs, i), "3S")

\* values of |macd| summed over a stroke
MacdAreas == {6, 10}

\* compute_bi_dynamics: every stroke gets its macd_area
ComputeBiDynamics ==
    /\ pc = "run_dynamics"
    /\ \E ar \in [1..Len(bis) -> MacdAreas] :
          bis' = [k \in 1..Len(bis) |-> [bis[k] EXCEPT !.macd_area = ar[k]]]
    /\ pc' = "run_centers"
    /\ UNCHANGED <<scoreVars, chan_bars, mergeVars, fxVars, current_start_fx, fx, b_n,
                   zsVars, runVars>>

\* centers = find_zhongshu(bis); signals = []; if len(bis) < 3: return signals
RunTooShort ==
    /\ pc = "run_centers"
    /\ Len(bis) < 3
    /\ centers' = find_zhongshu(bis)
    /\ signals' = <<>>
    /\ pc' = "run_done"
    /\ UNCHANGED <<scoreVars, chan_bars, mergeVars, fxVars, biVars, zs, z_i, z_j, r_i,
                   res_1b, res_1s, current_bi, context, sig>>

\* centers = find_zhongshu(bis); signals = []; for i in range(3, len(bis))
RunBegin ==
    /\ pc = "run_centers"
    /\ ~(Len(bis) < 3)
    /\ centers' = find_zhongshu(bis)
    /\ signals' = <<>>
    /\ r_i' = 3
    /\ pc' = "run_loop"
    /\ UNCHANGED <<scoreVars, chan_bars, mergeVars, fxVars, biVars, zs, z_i, z_j,
                   res_1b, res_1s, current_bi, context, sig>>

\* one iteration of the loop over the strokes
RunStep ==
    /\ pc = "run_loop"
    /\ r_i < Len(bis)
    /\ res_1b' = check_1b_conditions(r_i, bis, centers)
    /\ res_1s' = check_1s_conditions(r_i, bis, centers)
    /\ signals' = signals \o StepSignals(bis, centers, r_i)
    /\ r_i' = r_i + 1
    /\ UNCHANGED <<scoreVars, pc, chan_bars, mergeVars, fxVars, biVars, zsVars,
                   current_bi, context, sig>>

\* return signals
RunReturn ==
    /\ pc = "run_loop"
    /\ ~(r_i < Len(bis))
    /\ pc' = "run_done"
    /\ UNCHANGED <<scoreVars, chan_bars, mergeVars, fxVars, biVars, zsVars, runVars>>

\* the price levels at which the strokes of a run turn
TurningPrices == {1, 2, 3, 4}

\* turning prices that alternate, starting upwards when up
IsZigZag(ps, up) ==
    \A k \in 1..(Len(ps) - 1) :
        IF (k % 2 = 1) = up THEN ps[k] < ps[k + 1] ELSE ps[k] > ps[k + 1]

\* the strokes that join consecutive turning prices
ZigZagStrokes(ps, up) ==
    [k \in 1..(Len(ps) - 1) |->
        IF (k % 2 = 1) = up
        THEN MkStroke("UP", ps[k], ps[k + 1], k)
        ELSE MkStroke("DOWN", ps[k + 1], ps[k], k)]


\* --------------------------------- check_1b/1s_conditions called directly
\* curr_bi_idx, bis and centers are the arguments (r_i holds curr_bi_idx)
Check1B ==
    /\ pc = "check_1_call"
    /\ res_1b' = check_1b_conditions(r_i, bis, centers)
    /\ pc' = "check_1_done"
    /\ UNCHANGED <<scoreVars, chan_bars, mergeVars, fxVars, biVars, zsVars, signals, r_i,
                   res_1s, current_bi, context, sig>>

Check1S ==
    /\ pc = "check_1_call"
    /\ res_1s' = check_1s_conditions(r_i, bis, centers)
    /\ pc' = "check_1_done"
    /\ UNCHANGED <<scoreVars, chan_bars, mergeVars, fxVars, biVars, zsVars, signals, r_i,
                   res_1b, current_bi, context, sig>>

\* the spans of the strokes passed to the class-1 tests
CallSpans == {<<1, 2>>, <<2, 3>>, <<3, 4>>, <<4, 5>>}

\* the macd_area of the stroke under test; the other strokes carry 10
CallAreas == {6, 7, 10}

\* the stroke list of spans sh whose last stroke has macd_area a
CallStrokes(sh, d, a) ==
    [k \in 1..Len(sh) |->
        [StrokeList(sh, d)[k] EXCEPT !.macd_area = IF k = Len(sh) THEN a ELSE 10]]

\* ------------------------------------------------ first_class_signal.py
\* chan_core.Bi: the fields the detector reads
FBi(id, direction, high, low, sum, diff_peak, volume_sum) ==
    [id |-> id, direction |-> direction, high |-> high, low |-> low,
     macd_data |-> [sum |-> sum, diff_peak |-> diff_peak],
     volume_sum |-> volume_sum]

\* chan_core.Zhongshu: ZG, ZD, GG, DD and the ids of its bi_list
Zhongshu(zg, zd, gg, dd, bi_list) ==
    [ZG |-> zg, ZD |-> zd, GG |-> gg, DD |-> dd, bi_list |-> bi_list]

\* zs_list[-1]
Last(q) == q[Len(q)]

\* only the number of centers is tested
is_down_trend_count_only(ctx) == Len(ctx.zhongshu_list) >= 2

\* _is_down_trend
is_down_trend(ctx) ==
    LET zs_list == ctx.zhongshu_list
    IN  IF Len(zs_list) < 2 THEN FALSE
        ELSE ~(Last(zs_list).DD >= zs_list[Len(zs_list) - 1].DD)

\* _is_up_trend
is_up_trend(ctx) ==
    LET zs_list == ctx.zhongshu_list
    IN  IF Len(zs_list) < 2 THEN FALSE
        ELSE ~(Last(zs_list).GG <= zs_list[Len(zs_list) - 1].GG)

\* _is_new_low
is_new_low(bi, ctx) ==
    IF ctx.zhongshu_list = <<>> THEN FALSE
    ELSE bi.low < Last(ctx.zhongshu_list).DD

\* _is_new_high
is_new_high(bi, ctx) ==
    IF ctx.zhongshu_list = <<>> THEN FALSE
    ELSE bi.high > Last(ctx.zhongshu_list).GG

\* _find_enter_bi: the stroke before the first stroke of the last center
find_enter_bi(ctx) ==
    IF ctx.zhongshu_list = <<>> THEN None
    ELSE IF Last(ctx.zhongshu_list).bi_list = <<>> THEN None
    ELSE LET first_id == Last(ctx.zhongshu_list).bi_list[1]
             all_bis == ctx.bi_list
             S == {k \in 1..Len(all_bis) : all_bis[k].id = first_id}
             \* Python's idx is one less than the position k
             idx == IF S = {} THEN -1
                    ELSE (CHOOSE k \in S : \A m \in S : k <= m) - 1
         IN  IF idx > 0 THEN all_bis[idx] ELSE None

\* _calculate_macd_area
calculate_macd_area(bi) == IF bi.macd_data # None THEN bi.macd_data.sum ELSE 0

\* _get_macd_peak
get_macd_peak(bi) == IF bi.macd_data # None THEN bi.macd_data.diff_peak ELSE 0

\* _check_macd_divergence: threshold 0.3, so the factors are 0.7 and 0.85
check_macd_divergence(bi, ctx) ==
    LET enter_bi == find_enter_bi(ctx)
    IN  IF enter_bi = None THEN FALSE
        ELSE LET area_divergence ==
                     10 * calculate_macd_area(bi) < 7 * calculate_macd_area(enter_bi)
                 line_divergence ==
                     100 * get_macd_peak(bi) < 85 * get_macd_peak(enter_bi)
             IN  area_divergence \/ line_divergence

\* _trend_strength * 30, capped at 30
trend_score(ctx) ==
    LET count == Len(ctx.zhongshu_list)
    IN  IF count >= 3 THEN 30 ELSE IF count = 2 THEN 24 ELSE 15

\* _volume_confirmation * 20
volume_score(bi, ctx) ==
    LET enter_bi == find_enter_bi(ctx)
    IN  IF enter_bi = None THEN 10
        ELSE IF enter_bi.volume_sum = 0 THEN 10
        ELSE IF 10 * bi.volume_sum < 8 * enter_bi.volume_sum THEN 20
        ELSE IF bi.volume_sum < enter_bi.volume_sum THEN 14
        ELSE 6

\* the score as a fraction num / den:
\* _divergence_level * 40 is min(40, 48 * (enter - leave) / enter)
calculate_1B_score(bi, ctx) ==
    LET enter_bi == find_enter_bi(ctx)
        fixed == trend_score(ctx) + volume_score(bi, ctx) + 5
    IN  IF enter_bi = None THEN [num |-> fixed + 20, den |-> 1]
        ELSE LET leave_area == calculate_macd_area(bi)
                 enter_area == calculate_macd_area(enter_bi)
             IN  IF enter_area = 0 THEN [num |-> fixed, den |-> 1]
                 ELSE IF leave_area >= enter_area THEN [num |-> fixed, den |-> 1]
                 ELSE [num |-> fixed * enter_area
                                + Min2(40 * enter_area, 48 * (enter_area - leave_area)),
                       den |-> enter_area]

\* the Signal returned; price is end_price, the stroke's extreme
FSignal(t, bi, score) == [type |-> t, bi |-> bi, score |-> score]

\* detect_1B
detect_1B(bi, ctx) ==
    IF bi.direction # "down" THEN None
    ELSE IF ~is_down_trend(ctx) THEN None
    ELSE IF ~is_new_low(bi, ctx) THEN None
    ELSE IF ~check_macd_divergence(bi, ctx) THEN None
    ELSE LET score == calculate_1B_score(bi, ctx)
         IN  IF score.num >= 60 * score.den THEN FSignal("1B", bi, score) ELSE None

\* detect_1S
detect_1S(bi, ctx) ==
    IF bi.direction # "up" THEN None
    ELSE IF ~is_up_trend(ctx) THEN None
    ELSE IF ~is_new_high(bi, ctx) THEN None
    ELSE IF ~check_macd_divergence(bi, ctx) THEN None
    ELSE LET score == calculate_1B_score(bi, ctx)
         IN  IF score.num >= 60 * score.den THEN FSignal("1S", bi, score) ELSE None

Detect1B ==
    /\ pc = "detect_1_call"
    /\ sig' = detect_1B(current_bi, context)
    /\ pc' = "detect_1_done"
    /\ UNCHANGED <<scoreVars, chan_bars, mergeVars, fxVars, biVars, zsVars, signals, r_i,
                   res_1b, res_1s, current_bi, context>>

Detect1S ==
    /\ pc = "detect_1_call"
    /\ sig' = detect_1S(current_bi, context)
    /\ pc' = "detect_1_done"
    /\ UNCHANGED <<scoreVars, chan_bars, mergeVars, fxVars, biVars, zsVars, signals, r_i,
                   res_1b, res_1s, current_bi, context>>

\* ChanStrategy.run once find_bi has returned the strokes
InitRun ==
    /\ NoScoring
    /\ pc = "run_dynamics"
    /\ bars = <<>>
    /\ chan_bars = <<>>
    /\ current_trend = "UP"
    /\ m_i = 0
    /\ fractals = <<>>
    /\ f_i = 0
    /\ current_start_fx = NoFx
    /\ fx = NoFx
    /\ b_n = 0
    /\ \E ps \in SeqsUpTo(TurningPrices, MaxRunStrokes + 1), up \in BOOLEAN :
          IsZigZag(ps, up) /\ bis = ZigZagStrokes(ps, up)
    /\ centers = <<>>
    /\ zs = NoZs
    /\ z_i = 0
    /\ z_j = 0
    /\ signals = <<>>
    /\ r_i = 0
    /\ NoCalls

\* check_1b_conditions / check_1s_conditions on the newest stroke of a list
InitCheck1 ==
    /\ NoScoring
    /\ pc = "check_1_call"
    /\ bars = <<>>
    /\ chan_bars = <<>>
    /\ current_trend = "UP"
    /\ m_i = 0
    /\ fractals = <<>>
    /\ f_i = 0
    /\ current_start_fx = NoFx
    /\ fx = NoFx
    /\ b_n = 0
    /\ \E sh \in SeqsUpTo(CallSpans, MaxCallStrokes) \ {<<>>},
          d \in {"UP", "DOWN"}, a \in CallAreas :
          /\ bis = CallStrokes(sh, d, a)
          /\ centers = find_zhongshu(CallStrokes(sh, d, a))
          /\ r_i = Len(sh) - 1
    /\ zs = NoZs
    /\ z_i = 0
    /\ z_j = 0
    /\ signals = <<>>
    /\ NoCalls

\* values of macd_data['sum'], macd_data['diff_peak'] and volume_sum
FcSums == {0, 7, 10}
FcPeaks == {8, 10}
FcVolumes == {0, 7, 10}

\* (low, high) of the stroke under test and (DD, GG) of the centers
FcBands == {<<1, 2>>, <<2, 3>>, <<3, 4>>}

\* a zhongshu_list of the given bands; the last center's bi_list is ids
ZhongshuList(bands, ids) ==
    [k \in 1..Len(bands) |->
        Zhongshu(bands[k][2], bands[k][1], bands[k][2], bands[k][1],
                 IF k = Len(bands) THEN ids ELSE <<1>>)]

\* the stroke before the centers: it comes from above them when the strokes
\* under test go down, from below them when they go up
EnterStroke(dir, es, ep, ev) ==
    IF dir = "down" THEN FBi(1, dir, 6, 5, es, ep, ev)
    ELSE FBi(1, dir, 1, 0, es, ep, ev)

\* detect_1B / detect_1S on the newest of three strokes
InitDetect1 ==
    /\ NoScoring
    /\ pc = "detect_1_call"
    /\ bars = <<>>
    /\ chan_bars = <<>>
    /\ current_trend = "UP"
    /\ m_i = 0
    /\ fractals = <<>>
    /\ f_i = 0
    /\ current_start_fx = NoFx
    /\ fx = NoFx
    /\ b_n = 0
    /\ bis = <<>>
    /\ centers = <<>>
    /\ zs = NoZs
    /\ z_i = 0
    /\ z_j = 0
    /\ signals = <<>>
    /\ r_i = 0
    /\ res_1b = None
    /\ res_1s = None
    /\ sig = None
    /\ \E dir \in {"up", "down"}, band \in FcBands,
          ls \in FcSums, lp \in FcPeaks, lv \in FcVolumes,
          es \in FcSums, ep \in FcPeaks, ev \in FcVolumes,
          bands \in SeqsUpTo(FcBands, MaxZhongshu),
          ids \in {<<>>, <<1>>, <<2>>} :
          /\ current_bi = FBi(3, dir, band[2], band[1], ls, lp, lv)
          /\ context =
               [zhongshu_list |-> ZhongshuList(bands, ids),
                bi_list |-> <<EnterStroke(dir, es, ep, ev),
                              FBi(2, IF dir = "up" THEN "down" ELSE "up",
                                  4, 1, 10, 10, 10),
                              FBi(3, dir, band[2], band[1], ls, lp, lv)>>]

\* the signal stage: a run over a stroke list, or one of the class-1 tests
InitSignal == InitRun \/ InitCheck1 \/ InitDetect1

NextSignal ==
    \/ ComputeBiDynamics \/ RunTooShort \/ RunBegin \/ RunStep \/ RunReturn
    \/ Check1B \/ Check1S
    \/ Detect1B \/ Detect1S

SpecSignal == InitSignal /\ [][NextSignal]_vars

\* ---------------------------------------------- second_class_signal.py
\* chan_core.Bi: the fields the class-2 and class-3 detectors read; high and
\* low are the larger and the smaller end of the stroke
SBi(id, direction, start_price, end_price, start_time, end_time, n_bars, volume_sum) ==
    [id |-> id, direction |-> direction, start_price |-> start_price,
     end_price |-> end_price, high |-> Max2(start_price, end_price),
     low |-> Min2(start_price, end_price), start_time |-> start_time,
     end_time |-> end_time, bars |-> n_bars, volume_sum |-> volume_sum]

\* chan_core.Signal as the class-1 detector builds it; score in points
SSignal(t, price, time, score, bi) ==
    [type |-> t, price |-> price, time |-> time, score |-> score, bi |-> bi]

\* _get_last_confirmed_1B / _get_last_confirmed_1S
get_last_confirmed(ctx, t) ==
    LastMatch(ctx.signals, {k \in 1..Len(ctx.signals) : ctx.signals[k].type = t})

\* any later stroke counts as the pullback
is_later_stroke(bi, last_1, ctx) ==
    LET bi_list == ctx.bi_list
        S1 == {k \in 1..Len(bi_list) : bi_list[k].id = last_1.bi.id}
        SC == {k \in 1..Len(bi_list) : bi_list[k].id = bi.id}
    IN  S1 # {} /\ SC # {} /\ \E a \in S1, c \in SC : c > a

\* _is_first_pullback_after_1B / _after_1S: the loop keeps the last position
\* of each id; the stroke must sit two places after the class-1 stroke
is_first_pullback(bi, last_1, ctx) ==
    LET bi_list == ctx.bi_list
        S1 == {k \in 1..Len(bi_list) : bi_list[k].id = last_1.bi.id}
        SC == {k \in 1..Len(bi_list) : bi_list[k].id = bi.id}
        idx_1 == IF S1 = {} THEN -1 ELSE (CHOOSE k \in S1 : \A m \in S1 : m <= k) - 1
        idx_curr == IF SC = {} THEN -1 ELSE (CHOOSE k \in SC : \A m \in SC : m <= k) - 1
    IN  IF idx_1 = -1 \/ idx_curr = -1 THEN FALSE
        ELSE IF idx_curr <= idx_1 THEN FALSE
        ELSE idx_curr = idx_1 + 2

\* bars of bi_list[a..b] summed
RECURSIVE SumBars(_, _, _)
SumBars(bi_list, a, b) ==
    IF a > b THEN 0 ELSE bi_list[a].bars + SumBars(bi_list, a + 1, b)

\* _count_bars_since, the end times of bi_list being distinct: the bars of
\* the strokes after the one ending at start_time, up to the one ending at
\* end_time; 5 when that is nothing
count_bars_since(start_time, end_time, ctx) ==
    LET bi_list == ctx.bi_list
        P == {k \in 1..Len(bi_list) : bi_list[k].end_time = start_time}
        p == IF P = {} THEN Len(bi_list) ELSE CHOOSE k \in P : TRUE
        Q == {k \in (p + 1)..Len(bi_list) : bi_list[k].end_time = end_time}
        q == IF Q = {} THEN Len(bi_list) ELSE CHOOSE k \in Q : TRUE
        count == SumBars(bi_list, p + 1, q)
    IN  IF count > 0 THEN count ELSE 5

\* _calculate_2B_score / _calculate_2S_score in tenths of a point:
\* last_1.score * 0.3 + depth_score + time_score + 0.8 * 20, at most 100
calculate_2_score(bi, last_1, ctx) ==
    LET \* _calculate_pullback_ratio_2B / _2S as retracement over rise
        rise == IF last_1.type = "1B" THEN bi.start_price - last_1.price
                ELSE last_1.price - bi.start_price
        retracement == IF last_1.type = "1B" THEN bi.start_price - bi.end_price
                       ELSE bi.end_price - bi.start_price
        ret == IF rise <= 0 THEN 0 ELSE retracement
        den == IF rise <= 0 THEN 1 ELSE rise
        depth_score ==
            IF 3 * den <= 10 * ret /\ 10 * ret <= 6 * den THEN 30
            ELSE IF 2 * den <= 10 * ret /\ 10 * ret <= 7 * den THEN 20
            ELSE 10
        time_since == count_bars_since(last_1.time, bi.end_time, ctx)
        time_score ==
            IF 3 <= time_since /\ time_since <= 10 THEN 20
            ELSE IF 1 <= time_since /\ time_since <= 15 THEN 15
            ELSE 5
    IN  Min2(3 * last_1.score + 10 * depth_score + 10 * time_score + 160, 1000)

\* detect_2B; the signal is kept when score >= 60
detect_2B(bi, ctx) ==
    LET last_1B == get_last_confirmed(ctx, "1B")
    IN  IF last_1B = None THEN None
        ELSE IF bi.direction # "down" THEN None
        ELSE IF ~is_first_pullback(bi, last_1B, ctx) THEN None
        ELSE IF bi.end_price < last_1B.price THEN None
        ELSE LET score == calculate_2_score(bi, last_1B, ctx)
             IN  IF score >= 600
                 THEN SSignal("2B", bi.end_price, bi.end_time, score, bi)
                 ELSE None

\* detect_2S
detect_2S(bi, ctx) ==
    LET last_1S == get_last_confirmed(ctx, "1S")
    IN  IF last_1S = None THEN None
        ELSE IF bi.direction # "up" THEN None
        ELSE IF ~is_first_pullback(bi, last_1S, ctx) THEN None
        ELSE IF bi.end_price > last_1S.price THEN None
        ELSE LET score == calculate_2_score(bi, last_1S, ctx)
             IN  IF score >= 600
                 THEN SSignal("2S", bi.end_price, bi.end_time, score, bi)
                 ELSE None

Detect2B ==
    /\ pc = "detect_2_call"
    /\ sig' = detect_2B(current_bi, context)
    /\ pc' = "detect_2B_done"
    /\ UNCHANGED <<scoreVars, chan_bars, mergeVars, fxVars, biVars, zsVars, signals, r_i,
                   res_1b, res_1s, current_bi, context>>

Detect2S ==
    /\ pc = "detect_2_call"
    /\ sig' = detect_2S(current_bi, context)
    /\ pc' = "detect_2S_done"
    /\ UNCHANGED <<scoreVars, chan_bars, mergeVars, fxVars, biVars, zsVars, signals, r_i,
                   res_1b, res_1s, current_bi, context>>

\* ----------------------------------------------- third_class_signal.py
\* chan_core.Zhongshu: the fields the class-3 detector reads
ZhongshuAt(zg, zd, end_time) == [ZG |-> zg, ZD |-> zd, end_time |-> end_time]

\* _find_leave_bi: the first stroke from the center's end on that leaves it
find_leave_bi(zhongshu, ctx) ==
    LastMatch(ctx.bi_list,
        LET L == {k \in 1..Len(ctx.bi_list) :
                    LET bi == ctx.bi_list[k]
                    IN  /\ bi.start_time >= zhongshu.end_time
                        /\ \/ /\ bi.direction = "up"
                              /\ bi.start_price <= zhongshu.ZG
                              /\ bi.high > zhongshu.ZG
                           \/ /\ bi.direction = "down"
                              /\ bi.start_price >= zhongshu.ZD
                              /\ bi.low < zhongshu.ZD}
        IN  {k \in L : \A m \in L : k <= m})

\* _is_adjacent: opposite directions, bi2 starting no earlier than bi1 ends
is_adjacent(bi1, bi2) ==
    IF bi1.direction = bi2.direction THEN FALSE
    ELSE bi2.start_time >= bi1.end_time

\* _calculate_3B_score / _calculate_3S_score: leave strength, pullback depth,
\* volume pattern (1.0 or 0.5 of 20) and resonance (0); t is "3B" or "3S"
calculate_3_score(pullback_bi, leave_bi, zhongshu, t) ==
    LET zs_height == zhongshu.ZG - zhongshu.ZD
        away == IF t = "3B" THEN leave_bi.high - zhongshu.ZG
                ELSE zhongshu.ZD - leave_bi.low
        back == IF t = "3B" THEN leave_bi.high - pullback_bi.low
                ELSE pullback_bi.high - leave_bi.low
        \* a zero height or denominator is replaced by 0.0001
        StrengthOver(n, d) == IF zs_height = 0 THEN away > 0
                              ELSE d * away > n * zs_height
        DepthUnder(n, d) == IF away = 0 THEN back < 0
                            ELSE IF away > 0 THEN d * back < n * away
                            ELSE d * back > n * away
        leave_score == IF StrengthOver(5, 10) THEN 30
                       ELSE IF StrengthOver(3, 10) THEN 25
                       ELSE IF StrengthOver(1, 10) THEN 20 ELSE 10
        pullback_score == IF DepthUnder(5, 10) THEN 30
                          ELSE IF DepthUnder(7, 10) THEN 25
                          ELSE IF DepthUnder(9, 10) THEN 20 ELSE 10
        volume_pattern_score == IF leave_bi.volume_sum > pullback_bi.volume_sum
                                THEN 20 ELSE 10
    IN  Min2(leave_score + pullback_score + volume_pattern_score, 100)

\* detect_3B
detect_3B(bi, ctx) ==
    IF ctx.zhongshu_list = <<>> THEN None
    ELSE LET last_zs == Last(ctx.zhongshu_list)
             leave_bi == find_leave_bi(last_zs, ctx)
         IN  IF bi.direction # "down" THEN None
             ELSE IF leave_bi = None THEN None
             ELSE IF ~is_adjacent(leave_bi, bi) THEN None
             ELSE IF leave_bi.direction # "up"
                        \/ leave_bi.start_price > last_zs.ZG THEN None
             ELSE IF bi.low <= last_zs.ZG THEN None
             ELSE LET score == calculate_3_score(bi, leave_bi, last_zs, "3B")
                  IN  IF score >= 60
                      THEN SSignal("3B", bi.low, bi.end_time, score, bi)
                      ELSE None

\* detect_3S; context['bars'] is absent, so the sub-level check passes and
\* _check_filters rejects only a stroke without volume
detect_3S(bi, ctx) ==
    IF ctx.zhongshu_list = <<>> THEN None
    ELSE LET last_zs == Last(ctx.zhongshu_list)
             leave_bi == find_leave_bi(last_zs, ctx)
         IN  IF leave_bi = None THEN None
             ELSE IF bi.direction # "up" THEN None
             ELSE IF ~is_adjacent(leave_bi, bi) THEN None
             ELSE IF bi.high >= last_zs.ZD THEN None
             ELSE IF ~(bi.bars = 0 \/ leave_bi.bars = 0
                        \/ 10 * bi.volume_sum * leave_bi.bars
                              < 12 * leave_bi.volume_sum * bi.bars) THEN None
             ELSE IF bi.volume_sum = 0 THEN None
             ELSE LET score == calculate_3_score(bi, leave_bi, last_zs, "3S")
                  IN  IF score >= 60
                      THEN SSignal("3S", bi.high, bi.end_time, score, bi)
                      ELSE None

Detect3B ==
    /\ pc = "detect_3_call"
    /\ sig' = detect_3B(current_bi, context)
    /\ pc' = "detect_3B_done"
    /\ UNCHANGED <<scoreVars, chan_bars, mergeVars, fxVars, biVars, zsVars, signals, r_i,
                   res_1b, res_1s, current_bi, context>>

Detect3S ==
    /\ pc = "detect_3_call"
    /\ sig' = detect_3S(current_bi, context)
    /\ pc' = "detect_3S_done"
    /\ UNCHANGED <<scoreVars, chan_bars, mergeVars, fxVars, biVars, zsVars, signals, r_i,
                   res_1b, res_1s, current_bi, context>>

\* turning prices, (ZD, ZG) of the center, and stroke volumes of a context
LeavePrices == {1, 2, 3, 4, 5}
LeaveBands == {<<1, 2>>, <<2, 3>>, <<3, 4>>}
LeaveVolumes == {0, 7, 10}

\* the strokes _identify_bis builds on the turning prices ps: stroke k runs
\* from time 2(k-1) to time 2k; when jump > 0 a more extreme fractal replaced
\* the anchor before the last stroke, which then starts later and farther out
LeaveStrokes(ps, up, vu, vd, jump) ==
    [k \in 1..(Len(ps) - 1) |->
        LET is_up == (k % 2 = 1) = up
            late == k = Len(ps) - 1 /\ jump > 0
        IN  SBi(k, IF is_up THEN "up" ELSE "down",
                IF ~late THEN ps[k] ELSE IF is_up THEN ps[k] - jump ELSE ps[k] + jump,
                ps[k + 1], IF late THEN 2 * k - 1 ELSE 2 * (k - 1), 2 * k, 5,
                IF is_up THEN vu ELSE vd)]

\* detect_3B / detect_3S on the newest stroke of a list
InitDetect3 ==
    /\ NoScoring
    /\ pc = "detect_3_call"
    /\ bars = <<>>
    /\ chan_bars = <<>>
    /\ current_trend = "UP"
    /\ m_i = 0
    /\ fractals = <<>>
    /\ f_i = 0
    /\ current_start_fx = NoFx
    /\ fx = NoFx
    /\ b_n = 0
    /\ bis = <<>>
    /\ centers = <<>>
    /\ zs = NoZs
    /\ z_i = 0
    /\ z_j = 0
    /\ signals = <<>>
    /\ r_i = 0
    /\ res_1b = None
    /\ res_1s = None
    /\ sig = None
    /\ \E ps \in SeqsUpTo(LeavePrices, MaxLeaveStrokes + 1), up \in BOOLEAN,
          band \in LeaveBands, e \in {0, 2}, vu, vd \in LeaveVolumes,
          jump \in {0, 2} :
          /\ Len(ps) >= 3
          /\ IsZigZag(SubSeq(ps, 1, Len(ps) - 1), up)
          /\ Last(LeaveStrokes(ps, up, vu, vd, jump)).start_price >= 1
          /\ IF Last(LeaveStrokes(ps, up, vu, vd, jump)).direction = "up"
             THEN Last(LeaveStrokes(ps, up, vu, vd, jump)).start_price < Last(ps)
             ELSE Last(LeaveStrokes(ps, up, vu, vd, jump)).start_price > Last(ps)
          /\ current_bi = Last(LeaveStrokes(ps, up, vu, vd, jump))
          /\ context = [zhongshu_list |-> <<ZhongshuAt(band[2], band[1], e)>>,
                        bi_list |-> LeaveStrokes(ps, up, vu, vd, jump)]

\* turning prices, bars per stroke and class-1 scores of a detector context
PullPrices == {1, 2, 3, 4}
PullBars == {3, 7, 10}
PullScores == {50, 80}

\* the bi_list joining the turning prices ps; stroke k ends at time k
PullStrokes(ps, up, b) ==
    [k \in 1..(Len(ps) - 1) |->
        SBi(k, IF (k % 2 = 1) = up THEN "up" ELSE "down", ps[k], ps[k + 1],
            k - 1, k, b, 10)]

\* the class-1 signals recorded for the strokes at the positions J
RECURSIVE Class1Signals(_, _, _)
Class1Signals(bi_list, J, s) ==
    IF J = {} THEN <<>>
    ELSE LET j == CHOOSE k \in J : \A m \in J : m <= k
             bi == bi_list[j]
         IN  Append(Class1Signals(bi_list, J \ {j}, s),
                    SSignal(IF bi.direction = "down" THEN "1B" ELSE "1S",
                            bi.end_price, bi.end_time, s, bi))

\* detect_2B / detect_2S on a stroke of a list with at most two class-1 signals
InitDetect2 ==
    /\ NoScoring
    /\ pc = "detect_2_call"
    /\ bars = <<>>
    /\ chan_bars = <<>>
    /\ current_trend = "UP"
    /\ m_i = 0
    /\ fractals = <<>>
    /\ f_i = 0
    /\ current_start_fx = NoFx
    /\ fx = NoFx
    /\ b_n = 0
    /\ bis = <<>>
    /\ centers = <<>>
    /\ zs = NoZs
    /\ z_i = 0
    /\ z_j = 0
    /\ signals = <<>>
    /\ r_i = 0
    /\ res_1b = None
    /\ res_1s = None
    /\ sig = None
    /\ \E ps \in SeqsUpTo(PullPrices, MaxPullStrokes + 1), up \in BOOLEAN,
          b \in PullBars, s \in PullScores :
          /\ Len(ps) >= 4
          /\ IsZigZag(ps, up)
          /\ \E c \in 1..(Len(ps) - 1), J \in SUBSET (1..(Len(ps) - 1)) :
                /\ Cardinality(J) <= 2
                /\ current_bi = PullStrokes(ps, up, b)[c]
                /\ context = [bi_list |-> PullStrokes(ps, up, b),
                              signals |-> Class1Signals(PullStrokes(ps, up, b), J, s)]

\* the class-2 and class-3 tests: a run over a stroke list, or a detector call
InitPullback == InitRun \/ InitDetect2 \/ InitDetect3

NextPullback ==
    \/ ComputeBiDynamics \/ RunTooShort \/ RunBegin \/ RunStep \/ RunReturn
    \/ Detect2B \/ Detect2S
    \/ Detect3B \/ Detect3S

SpecPullback == InitPullback /\ [][NextPullback]_vars

\* ------------------------------------------------------- signal_scorer.py
\* Scores are Python floats; the model counts in ten-thousandths of a point
Points(p) == 10000 * p

Dimensions == <<"structure", "divergence", "volume_price", "time",
                "position", "sub_level", "strength", "confirmation">>

EmptyDict == [k \in {} |-> 0]

ScorableSignal(signal_type, price, is_structure_complete, structure_quality, divergence_score, volume, avg_volume, trend_duration, position_level, has_sub_level_structure, momentum_val, is_fractal_confirmed) ==
    [signal_type |-> signal_type, price |-> price,
     is_structure_complete |-> is_structure_complete,
     structure_quality |-> structure_quality,
     divergence_score |-> divergence_score,
     volume |-> volume, avg_volume |-> avg_volume,
     trend_duration |-> trend_duration,
     position_level |-> position_level,
     has_sub_level_structure |-> has_sub_level_structure,
     momentum_val |-> momentum_val,
     is_fractal_confirmed |-> is_fractal_confirmed,
     meta |-> EmptyDict]

\* dict.get(key, default)
dict_get(d, key, default) == IF key \in DOMAIN d THEN d[key] ELSE default

\* mutant: the quality metric is added without being halved
score_structure_full_quality(s) ==
    (IF s.is_structure_complete THEN Points(50) ELSE 0) + s.structure_quality

score_structure(s) ==
    (IF s.is_structure_complete THEN Points(50) ELSE 0)
        + (s.structure_quality \div 2)

score_divergence(s) == s.divergence_score

\* vol_ratio = volume / avg_volume, compared with 2.0, 1.5 and 1.0
score_volume_price(s) ==
    IF s.avg_volume <= 0 THEN Points(50)
    ELSE IF s.volume > 2 * s.avg_volume THEN Points(100)
    ELSE IF 2 * s.volume > 3 * s.avg_volume THEN Points(80)
    ELSE IF s.volume > s.avg_volume THEN Points(60)
    ELSE Points(40)

score_time(s) ==
    IF s.trend_duration > 100 THEN Points(90)
    ELSE IF s.trend_duration > 50 THEN Points(70)
    ELSE Points(50)

score_position(s) ==
    IF s.signal_type \in {"1B", "2B", "3B"}
    THEN Points(100) - s.position_level
    ELSE s.position_level

score_sub_level(s) == IF s.has_sub_level_structure THEN Points(100) ELSE 0

score_strength(s) == s.momentum_val

score_confirmation(s) == IF s.is_fractal_confirmed THEN Points(100) ELSE 0

\* the table of dimension methods
scorer_func(dim, s) ==
    CASE dim = "structure" -> score_structure(s)
      [] dim = "divergence" -> score_divergence(s)
      [] dim = "volume_price" -> score_volume_price(s)
      [] dim = "time" -> score_time(s)
      [] dim = "position" -> score_position(s)
      [] dim = "sub_level" -> score_sub_level(s)
      [] dim = "strength" -> score_strength(s)
      [] dim = "confirmation" -> score_confirmation(s)

calculate_dimension_score(dim, s) ==
    IF \E k \in 1..Len(Dimensions) : Dimensions[k] = dim
    THEN scorer_func(dim, s)
    ELSE 0

\* mutant: the dimension score is used as computed
clamp_score_raw(score) == score

\* max(0.0, min(100.0, score))
clamp_score(score) == Max2(0, Min2(Points(100), score))

\* total_score and total_weight after the first k dimensions of the loop
RECURSIVE total_score(_, _, _)
total_score(w, s, k) ==
    IF k = 0 THEN 0
    ELSE LET weight == dict_get(w, Dimensions[k], 0)
         IN  total_score(w, s, k - 1)
                + (IF weight > 0
                   THEN clamp_score(scorer_func(Dimensions[k], s)) * weight
                   ELSE 0)

\* mutant: the divisor is the largest weight
RECURSIVE total_weight_max(_, _)
total_weight_max(w, k) ==
    IF k = 0 THEN 0
    ELSE Max2(total_weight_max(w, k - 1), dict_get(w, Dimensions[k], 0))

RECURSIVE total_weight(_, _)
total_weight(w, k) ==
    IF k = 0 THEN 0
    ELSE LET weight == dict_get(w, Dimensions[k], 0)
         IN  total_weight(w, k - 1) + (IF weight > 0 THEN weight ELSE 0)

\* mutant: the quotient is truncated to a hundredth
round2_down(n, d) == 100 * (n \div (100 * d))

\* round(n / d, 2) for n >= 0 and d > 0: the nearest hundredth of a point
round2(n, d) == 100 * ((2 * n + 100 * d) \div (200 * d))

calculate_score(w, s) ==
    IF total_weight(w, Len(Dimensions)) > 0
    THEN round2(total_score(w, s, Len(Dimensions)),
                total_weight(w, Len(Dimensions)))
    ELSE 0

\* ------------------------------------------------------------ settings.py
ValueError == [type |-> "ValueError"]

RECURSIVE SumValues(_, _)
SumValues(d, K) ==
    IF K = {} THEN 0
    ELSE LET k == CHOOSE x \in K : TRUE
         IN  d[k] + SumValues(d, K \ {k})

DefaultWeights ==
    [structure |-> 20, divergence |-> 20, volume_price |-> 10, time |-> 10,
     position |-> 10, sub_level |-> 10, strength |-> 10, confirmation |-> 10]

validate_weights(v) == SumValues(v, DOMAIN v) = 100

ScorerConfig(w) == [weights |-> w, min_score |-> Points(60)]

FilterConfig ==
    [check_structure_complete |-> TRUE, check_position_clear |-> TRUE,
     check_fractal_confirmation |-> TRUE, limit_move_percent |-> 2,
     min_score |-> Points(70)]

\* AppConfig.from_yaml: defaults without a file, else the file's scorer section
from_yaml(data) ==
    IF data = None
    THEN [scorer |-> ScorerConfig(DefaultWeights), filter |-> FilterConfig]
    ELSE IF ~validate_weights(data.scorer.weights) THEN ValueError
    ELSE [scorer |-> ScorerConfig(data.scorer.weights), filter |-> FilterConfig]

\* ------------------------------------------------------- signal_filter.py
\* market_context with the defaults of its .get calls filled in
MarketContext(range_percent, trading_session, atr, min_atr, stop_distance) ==
    [range_percent |-> range_percent, trading_session |-> trading_session,
     atr |-> atr, min_atr |-> min_atr, stop_distance |-> stop_distance,
     max_stop_pct |-> 2]

check_mandatory_conditions(cfg, s) ==
    /\ cfg.check_structure_complete => s.is_structure_complete
    /\ cfg.check_fractal_confirmation => s.is_fractal_confirmed

check_exclusion_conditions(cfg, s, ctx) ==
    /\ ~(cfg.limit_move_percent > 0 /\ ctx.range_percent >= cfg.limit_move_percent)
    /\ ctx.trading_session # "low_liquidity"

check_score_threshold(cfg, s) ==
    dict_get(s.meta, "final_score", 0) >= cfg.min_score

check_market_state(s, ctx) == ~(ctx.min_atr > 0 /\ ctx.atr < ctx.min_atr)

\* stop_distance / price * 100 > max_stop_pct
risk_management_check(s, ctx) ==
    ~(s.price > 0 /\ 100 * ctx.stop_distance > ctx.max_stop_pct * s.price)

\* mutant: every check is evaluated, whatever the earlier ones returned
gates_evaluated_all(cfg, s, ctx) ==
    <<"mandatory", "exclusion", "score", "market_state", "risk">>

\* the checks filter_signal evaluates: each one up to the first that fails
gates_evaluated(cfg, s, ctx) ==
    IF ~check_mandatory_conditions(cfg, s) THEN <<"mandatory">>
    ELSE IF ~check_exclusion_conditions(cfg, s, ctx)
    THEN <<"mandatory", "exclusion">>
    ELSE IF ~check_score_threshold(cfg, s)
    THEN <<"mandatory", "exclusion", "score">>
    ELSE IF ~check_market_state(s, ctx)
    THEN <<"mandatory", "exclusion", "score", "market_state">>
    ELSE <<"mandatory", "exclusion", "score", "market_state", "risk">>

filter_signal(cfg, s, ctx) ==
    /\ check_mandatory_conditions(cfg, s)
    /\ check_exclusion_conditions(cfg, s, ctx)
    /\ check_score_threshold(cfg, s)
    /\ check_market_state(s, ctx)
    /\ risk_management_check(s, ctx)

\* ------------------------------------------------- scorer and filter calls
\* SignalScorer.__init__: the weights of config.yaml, unchecked
ScorerInit ==
    /\ pc = "scorer_init_call"
    /\ weights' = IF config_yaml = None THEN EmptyDict
                  ELSE dict_get(dict_get(config_yaml, "scorer", EmptyDict),
                                "weights", EmptyDict)
    /\ pc' = "scorer_ready"
    /\ UNCHANGED <<filterVars, rtVars, monVars, config_yaml, settings, signal, dimension, market_context,
                   result, chan_bars, mergeVars, fxVars, biVars, zsVars, runVars>>

CalculateScore ==
    /\ pc = "scorer_ready"
    /\ result' = calculate_score(weights, signal)
    /\ signal' = [signal EXCEPT
                    !.meta = [final_score |-> calculate_score(weights, signal)]]
    /\ pc' = "score_done"
    /\ UNCHANGED <<filterVars, rtVars, monVars, config_yaml, settings, weights, dimension, market_context,
                   chan_bars, mergeVars, fxVars, biVars, zsVars, runVars>>

CalculateDimensionScore ==
    /\ pc = "scorer_ready"
    /\ \E dim \in {Dimensions[k] : k \in 1..Len(Dimensions)} \cup {"trend"} :
          /\ dimension' = dim
          /\ result' = calculate_dimension_score(dim, signal)
    /\ pc' = "dimension_done"
    /\ UNCHANGED <<filterVars, rtVars, monVars, config_yaml, settings, weights, signal, market_context,
                   chan_bars, mergeVars, fxVars, biVars, zsVars, runVars>>

\* get_settings: the first call loads and validates the configuration
GetSettings ==
    /\ pc \in {"scorer_ready", "score_done"}
    /\ settings = None
    /\ settings' = from_yaml(config_yaml)
    /\ UNCHANGED <<filterVars, rtVars, monVars, pc, config_yaml, weights, signal, dimension, market_context,
                   result, chan_bars, mergeVars, fxVars, biVars, zsVars, runVars>>

MarketContexts ==
    {MarketContext(0, "", 0, 0, 0), MarketContext(3, "", 0, 0, 0),
     MarketContext(0, "low_liquidity", 0, 0, 0), MarketContext(0, "", 1, 2, 0),
     MarketContext(0, "", 0, 0, 5)}

\* SignalFilter().filter_signal on a scored or an unscored signal
FilterSignal ==
    /\ pc \in {"scorer_ready", "score_done"}
    /\ settings \notin {None, ValueError}
    /\ \E ctx \in MarketContexts :
          /\ market_context' = ctx
          /\ result' = filter_signal(settings.filter, signal, ctx)
          /\ gates' = gates_evaluated(settings.filter, signal, ctx)
    /\ pc' = "filter_done"
    /\ UNCHANGED <<n_confirm, rtVars, monVars, config_yaml, settings, weights, signal, dimension,
                   chan_bars, mergeVars, fxVars, biVars, zsVars, runVars>>

StructureQualities == {Points(-20), 333330, Points(60), Points(150)}
DivergenceScores == {Points(-10), Points(60), Points(120)}
VolumeProfiles == {<<0, 0, 10>>, <<100, 100, 60>>, <<120, 100, 120>>,
                   <<160, 100, 10>>, <<300, 100, 60>>}
PositionLevels == {Points(20), Points(130)}
ConfirmProfiles == {<<FALSE, Points(-1), FALSE>>, <<TRUE, Points(50), TRUE>>,
                    <<TRUE, Points(101), FALSE>>, <<FALSE, Points(50), TRUE>>}
WeightConfigs ==
    {DefaultWeights,
     [structure |-> 100],
     [structure |-> 50, divergence |-> 50],
     [structure |-> 0, divergence |-> 0],
     [structure |-> 50],
     [structure |-> 30, divergence |-> 30, position |-> 10],
     [structure |-> 100, time |-> 50, strength |-> 100],
     [structure |-> 60, divergence |-> 60, time |-> -20]}

InitScorer ==
    /\ pc = "scorer_init_call"
    /\ bars = <<>>
    /\ chan_bars = <<>>
    /\ current_trend = "UP"
    /\ m_i = 0
    /\ fractals = <<>>
    /\ f_i = 0
    /\ current_start_fx = NoFx
    /\ fx = NoFx
    /\ b_n = 0
    /\ bis = <<>>
    /\ centers = <<>>
    /\ zs = NoZs
    /\ z_i = 0
    /\ z_j = 0
    /\ signals = <<>>
    /\ r_i = 0
    /\ NoCalls
    /\ NoMonitoring
    /\ config_yaml \in {None} \cup {[scorer |-> [weights |-> w]] : w \in WeightConfigs}
    /\ settings = None
    /\ weights = None
    /\ dimension = None
    /\ market_context = None
    /\ result = None
    /\ \E t \in {"1B", "3S"}, c \in BOOLEAN, q \in StructureQualities,
          d \in DivergenceScores, v \in VolumeProfiles, p \in PositionLevels,
          f \in ConfirmProfiles :
          signal = ScorableSignal(t, 100, c, q, d, v[1], v[2], v[3], p,
                                  f[1], f[2], f[3])

NextScorer ==
    ScorerInit \/ CalculateScore \/ CalculateDimensionScore \/ GetSettings
    \/ FilterSignal

SpecScorer == InitScorer /\ [][NextScorer]_vars

\* ------------------------------------------ signal_filter.py: confirmation
MaxConfirms == 2    \* evaluations of confirm_signal on one market context

\* the number of conditions of a checklist that hold
Satisfied(conds) == Cardinality({k \in 1..Len(conds) : conds[k]})

is_bottom_fenxing_confirmed(s, ctx) == dict_get(ctx, "fenxing_confirmed", TRUE)
is_top_fenxing_confirmed(s, ctx) == dict_get(ctx, "fenxing_confirmed", TRUE)
volume_increase_confirmation(s, ctx) == dict_get(ctx, "volume_increase", TRUE)
volume_shrink_during_pullback(s, ctx) == dict_get(ctx, "volume_shrink", TRUE)
volume_pattern_confirmation(s, ctx) == TRUE
has_lower_level_buy_signal(s, ctx) == dict_get(ctx, "lower_level_buy", FALSE)
has_lower_level_sell_signal(s, ctx) == dict_get(ctx, "lower_level_sell", FALSE)

\* current_price defaults to 0 in the buy checks
price_above(ctx, level) == dict_get(ctx, "current_price", 0) > level

\* current_price defaults to float('inf') in the sell checks
price_below(ctx, level) ==
    "current_price" \in DOMAIN ctx /\ ctx.current_price < level

break_previous_high(s, ctx) ==
    "leave_bi" \in DOMAIN s.meta /\ price_above(ctx, s.meta.leave_bi.high)

break_previous_low(s, ctx) ==
    "leave_bi" \in DOMAIN s.meta /\ price_below(ctx, s.meta.leave_bi.low)

\* the checklist of each signal type
confirmation_conditions(s, ctx) ==
    CASE s.signal_type = "1B" ->
            <<price_above(ctx, s.price), is_bottom_fenxing_confirmed(s, ctx),
              volume_increase_confirmation(s, ctx),
              has_lower_level_buy_signal(s, ctx)>>
      [] s.signal_type = "2B" ->
            <<price_above(ctx, s.price), is_bottom_fenxing_confirmed(s, ctx),
              volume_shrink_during_pullback(s, ctx)>>
      [] s.signal_type = "3B" ->
            <<price_above(ctx, s.price), has_lower_level_buy_signal(s, ctx),
              volume_pattern_confirmation(s, ctx), break_previous_high(s, ctx)>>
      [] s.signal_type = "1S" ->
            <<price_below(ctx, s.price), is_top_fenxing_confirmed(s, ctx),
              volume_increase_confirmation(s, ctx),
              has_lower_level_sell_signal(s, ctx)>>
      [] s.signal_type = "2S" ->
            <<price_below(ctx, s.price), is_top_fenxing_confirmed(s, ctx),
              volume_shrink_during_pullback(s, ctx)>>
      [] s.signal_type = "3S" ->
            <<price_below(ctx, s.price), has_lower_level_sell_signal(s, ctx),
              volume_pattern_confirmation(s, ctx), break_previous_low(s, ctx)>>
      [] OTHER -> <<>>

\* mutant: two satisfied conditions confirm a signal of any type
confirm_signal_two_of_any(s, ctx) ==
    Satisfied(confirmation_conditions(s, ctx)) >= 2

\* mutant: once evaluated, the signal counts as confirmed
confirm_signal_latched(s, ctx) ==
    n_confirm >= 1 \/ Satisfied(confirmation_conditions(s, ctx)) >= 2

confirm_signal(s, ctx) ==
    CASE s.signal_type \in {"1B", "1S"} ->
            Satisfied(confirmation_conditions(s, ctx)) >= 3
      [] s.signal_type \in {"2B", "3B", "2S", "3S"} ->
            Satisfied(confirmation_conditions(s, ctx)) >= 2
      [] OTHER -> FALSE

ConfirmKeys == {"current_price", "fenxing_confirmed", "volume_increase",
                "volume_shrink", "lower_level_buy", "lower_level_sell"}

\* a market context with every key, then cut down to the keys K
FullContext(price, fenxing, vol, lower) ==
    [k \in ConfirmKeys |->
        CASE k = "current_price" -> price
          [] k = "fenxing_confirmed" -> fenxing
          [] k \in {"volume_increase", "volume_shrink"} -> vol
          [] OTHER -> lower]

KeySets ==
    {K \in SUBSET ConfirmKeys :
        /\ ("volume_increase" \in K) = ("volume_shrink" \in K)
        /\ ("lower_level_buy" \in K) = ("lower_level_sell" \in K)}

ConfirmContexts ==
    {[k \in K |-> FullContext(p, f, v, l)[k]] :
        K \in KeySets, p \in {90, 110, 130}, f \in BOOLEAN, v \in BOOLEAN,
        l \in BOOLEAN}

\* confirm_signal on the market context of a new bar
ConfirmSignal ==
    /\ pc \in {"confirm_call", "confirm_done"}
    /\ \E ctx \in ConfirmContexts :
          /\ market_context' = ctx
          /\ result' = confirm_signal(signal, ctx)
    /\ n_confirm' = 1
    /\ pc' = "confirm_done"
    /\ UNCHANGED <<config_yaml, settings, weights, signal, dimension, gates,
                   rtVars, monVars, chan_bars, mergeVars, fxVars, biVars,
                   zsVars, runVars>>

\* confirm_signal once more on the same signal and the same market context
ReconfirmSignal ==
    /\ pc = "confirm_done"
    /\ n_confirm < MaxConfirms
    /\ result' = confirm_signal(signal, market_context)
    /\ n_confirm' = n_confirm + 1
    /\ UNCHANGED <<pc, config_yaml, settings, weights, signal, dimension,
                   market_context, gates, rtVars, monVars, chan_bars,
                   mergeVars, fxVars, biVars, zsVars, runVars>>

\* the analysis pipeline at rest
NoPipeline ==
    /\ chan_bars = <<>>
    /\ current_trend = "UP"
    /\ m_i = 0
    /\ fractals = <<>>
    /\ f_i = 0
    /\ current_start_fx = NoFx
    /\ fx = NoFx
    /\ b_n = 0
    /\ bis = <<>>
    /\ centers = <<>>
    /\ zs = NoZs
    /\ z_i = 0
    /\ z_j = 0
    /\ r_i = 0
    /\ NoCalls

\* a signal of each type (and of no known type) at price 100, with or without
\* the leaving stroke in its meta
InitConfirm ==
    /\ pc = "confirm_call"
    /\ bars = <<>>
    /\ signals = <<>>
    /\ NoPipeline
    /\ NoMonitoring
    /\ config_yaml = None
    /\ settings = from_yaml(None)
    /\ weights = None
    /\ dimension = None
    /\ market_context = None
    /\ result = None
    /\ \E t \in {"1B", "2B", "3B", "1S", "2S", "3S", "4B"},
          m \in {EmptyDict, [leave_bi |-> [high |-> 120, low |-> 80]]} :
          signal = [ScorableSignal(t, 100, TRUE, 0, 0, 0, 0, 0, 0, FALSE, 0, TRUE)
                        EXCEPT !.meta = m]

NextConfirm == ConfirmSignal \/ ReconfirmSignal

SpecConfirm == InitConfirm /\ [][NextConfirm]_vars

\* -------------------------------------------------------------- real_time.py
MaxCycles == 3      \* run_once cycles
MaxTime == 3        \* signal times 1..MaxTime

\* mutant: only a strictly older latest signal counts as processed
is_processed_strictly_older(last, t) == last # None /\ t < last.at

\* run_once: "if self.last_signal_time and latest_signal.time <= ...";
\* last is None or the remembered time [at |-> t]
is_processed(last, t) == last # None /\ t <= last.at

\* the strategy's signal record after analyze: up to two signals
SignalRecords ==
    {<<>>} \cup {<<[type |-> "1B", time |-> t]>> : t \in 1..MaxTime}
           \cup {<<[type |-> "1B", time |-> t], [type |-> "1S", time |-> u]>> :
                    t \in 1..MaxTime, u \in 1..MaxTime}

\* run_once when get_bars returns no bars
RunOnceNoBars ==
    /\ pc = "rt_idle"
    /\ n_cycle < MaxCycles
    /\ n_cycle' = n_cycle + 1
    /\ bars' = <<>>
    /\ UNCHANGED <<pc, last_signal_time, sent, n_analyze, signals>>
    /\ UNCHANGED <<chan_bars, current_trend, m_i, fxVars, biVars, zsVars, r_i,
                   res_1b, res_1s, current_bi, context, sig>>
    /\ UNCHANGED <<config_yaml, settings, weights, signal, dimension,
                   market_context, result, filterVars, monVars>>

\* run_once on fetched bars: analyze, take the last recorded signal, skip it
\* when already processed, else remember its time and notify (delivered is
\* FALSE when opening the position or sending raises)
RunOnce ==
    /\ pc = "rt_idle"
    /\ n_cycle < MaxCycles
    /\ n_cycle' = n_cycle + 1
    /\ bars' = <<[high |-> 2, low |-> 1]>>
    /\ n_analyze' = n_analyze + 1
    /\ \E record \in SignalRecords, delivered \in BOOLEAN :
          /\ signals' = record
          /\ IF record = <<>>
                THEN UNCHANGED <<last_signal_time, sent>>
                ELSE LET latest_signal == record[Len(record)]
                     IN  IF is_processed(last_signal_time, latest_signal.time)
                           THEN UNCHANGED <<last_signal_time, sent>>
                           ELSE /\ last_signal_time' = [at |-> latest_signal.time]
                                /\ sent' = IF delivered
                                             THEN Append(sent, latest_signal.time)
                                             ELSE sent
    /\ UNCHANGED pc
    /\ UNCHANGED <<chan_bars, current_trend, m_i, fxVars, biVars, zsVars, r_i,
                   res_1b, res_1s, current_bi, context, sig>>
    /\ UNCHANGED <<config_yaml, settings, weights, signal, dimension,
                   market_context, result, filterVars, monVars>>

InitRealTime ==
    /\ pc = "rt_idle"
    /\ bars = <<>>
    /\ signals = <<>>
    /\ NoPipeline
    /\ NoScoring

NextRealTime == RunOnceNoBars \/ RunOnce

SpecRealTime == InitRealTime /\ [][NextRealTime]_vars

\* ------------------------------------------- signal_state.py, monitor.py
MaxRuns == 3        \* _run_once cycles
MaxBarIndex == 4    \* bar indices 1..MaxBarIndex
MaxCooldown == 2    \* cooldown_bars in 1..MaxCooldown

\* mutant: the current bar counts as one bar of the gap
should_notify_counting_current_bar(last_signal, current_dir, current_idx, cooldown_bars) ==
    IF last_signal = None THEN TRUE
    ELSE IF current_dir # last_signal.direction THEN TRUE
    ELSE Max2(0, current_idx - last_signal.last_notify_bar_index) + 1 >= cooldown_bars

\* SignalState.should_notify on the loaded state (None: no file)
should_notify(last_signal, current_dir, current_idx, cooldown_bars) ==
    IF last_signal = None THEN TRUE
    ELSE IF current_dir # last_signal.direction THEN TRUE
    ELSE Max2(0, current_idx - last_signal.last_notify_bar_index) >= cooldown_bars

\* _run_once: compute the signal, drop no-signal, "hold" and weak ones, ask
\* should_notify; an allowed normal signal is only logged; an allowed strong
\* one is notified and then saved as the state (notify may raise, which
\* skips the save; save swallows its own failure)
MonitorRunOnce ==
    /\ pc = "monitor_idle"
    /\ n_run < MaxRuns
    /\ n_run' = n_run + 1
    /\ \E direction \in {"NONE", "HOLD", "LONG", "SHORT"},
          strength \in {"weak", "normal", "strong"},
          bar_index \in 1..MaxBarIndex,
          notified \in BOOLEAN, saved \in BOOLEAN :
          IF \/ direction \in {"NONE", "HOLD"}
             \/ strength = "weak"
             \/ ~should_notify(state_file, direction, bar_index, args.cooldown_bars)
             \/ strength = "normal"
             \/ ~notified
            THEN UNCHANGED <<state_file, pushed>>
            ELSE /\ pushed' = Append(pushed, [direction |-> direction,
                                              bar_index |-> bar_index,
                                              recorded |-> saved])
                 /\ state_file' =
                       IF saved
                         THEN [direction |-> direction,
                               last_notify_bar_index |-> bar_index]
                         ELSE state_file
    /\ UNCHANGED <<pc, args, bars, signals>>
    /\ UNCHANGED <<chan_bars, current_trend, m_i, fxVars, biVars, zsVars, r_i,
                   res_1b, res_1s, current_bi, context, sig>>
    /\ UNCHANGED <<config_yaml, settings, weights, signal, dimension,
                   market_context, result, filterVars, rtVars>>

InitMonitor ==
    /\ pc = "monitor_idle"
    /\ bars = <<>>
    /\ signals = <<>>
    /\ NoPipeline
    /\ config_yaml = None
    /\ settings = None
    /\ weights = None
    /\ signal = None
    /\ dimension = None
    /\ market_context = None
    /\ result = None
    /\ gates = <<>>
    /\ n_confirm = 0
    /\ last_signal_time = None
    /\ sent = <<>>
    /\ n_analyze = 0
    /\ n_cycle = 0
    /\ state_file = None
    /\ pushed = <<>>
    /\ n_run = 0
    /\ args \in {[cooldown_bars |-> c] : c \in 1..MaxCooldown}

NextMonitor == MonitorRunOnce

SpecMonitor == InitMonitor /\ [][NextMonitor]_vars

\* ------------------------------------ chan_core.py: ChanTheorySignalDetector
MaxDetectBars == 6  \* longest raw bar sequence fed to analyze

\* mutant: no inclusion handling, every raw bar is its own ChanBar
merge_klines_raw(bs) ==
    IF Len(bs) < 2 THEN <<>>
    ELSE [k \in 1..Len(bs) |-> ChanBar(k - 1, bs[k].high, bs[k].low, <<k - 1>>)]

\* the bars _identify_bis works on: analyze passes merge_klines(raw_bars)
detector_chan_bars(bs) == merge_klines(bs)

\* _identify_bis, step 1: the fractal at 0-based position i, or none
RECURSIVE identify_fractals(_, _)
identify_fractals(cb, i) ==
    IF i > Len(cb) - 2 THEN <<>>
    ELSE LET curr == cb[i + 1]
             prev == cb[i]
             next_b == cb[i + 2]
             rest == identify_fractals(cb, i + 1)
         IN  IF curr.high > prev.high /\ curr.high > next_b.high
               THEN <<[index |-> i, type |-> "top", price |-> curr.high]>> \o rest
             ELSE IF curr.low < prev.low /\ curr.low < next_b.low
               THEN <<[index |-> i, type |-> "bottom", price |-> curr.low]>> \o rest
             ELSE rest

\* analyze up to the fractal list of _identify_bis (nothing is detected on
\* fewer than 5 merged bars)
Analyze ==
    /\ pc = "analyze_start"
    /\ chan_bars' = detector_chan_bars(bars)
    /\ fractals' = IF Len(chan_bars') < 5 THEN <<>>
                   ELSE identify_fractals(chan_bars', 1)
    /\ pc' = "analyze_done"
    /\ UNCHANGED <<scoreVars, mergeVars, f_i, biVars, zsVars, runVars>>

InitAnalyze ==
    /\ pc = "analyze_start"
    /\ bars \in SeqsUpTo(PriceBars(3), MaxDetectBars)
    /\ signals = <<>>
    /\ NoPipeline
    /\ NoScoring

NextAnalyze == Analyze

SpecAnalyze == InitAnalyze /\ [][NextAnalyze]_vars

\* ------------------------------- chan_strategy.py: run on sparse input
MaxShortBars == 4   \* longest raw bar sequence of a sparse run

\* chan.indicators.calculate_atr is imported by chan_strategy.py but not
\* defined by the repository; taken to return one value per bar
calculate_atr(bs) == [k \in 1..Len(bs) |-> 0]

\* find_bi, loop over fractals[1:], i is the 1-based position of fx
RECURSIVE find_bi_from(_, _, _, _)
find_bi_from(fxs, i, anchor, acc) ==
    IF i > Len(fxs) THEN acc
    ELSE LET f == fxs[i] IN
         IF f.type = anchor.type
           THEN find_bi_from(fxs, i + 1,
                    IF \/ (f.type = "TOP" /\ f.high > anchor.high)
                       \/ (f.type = "BOTTOM" /\ f.low < anchor.low)
                      THEN f ELSE anchor, acc)
         ELSE IF f.index - anchor.index < 4
           THEN find_bi_from(fxs, i + 1, anchor, acc)
         ELSE IF anchor.type = "BOTTOM"
           THEN IF f.high <= anchor.low
                  THEN find_bi_from(fxs, i + 1, anchor, acc)
                  ELSE find_bi_from(fxs, i + 1, f, Append(acc, Bi(anchor, f, "UP")))
         ELSE IF f.low >= anchor.high
                  THEN find_bi_from(fxs, i + 1, anchor, acc)
                  ELSE find_bi_from(fxs, i + 1, f, Append(acc, Bi(anchor, f, "DOWN")))

\* mutant: a stroke is made out of the first fractal alone
find_bi_of_one_fractal(fxs) ==
    IF fxs = <<>> THEN <<>> ELSE <<Bi(fxs[1], fxs[1], "UP")>>

find_bi(fxs) ==
    IF fxs = <<>> THEN <<>> ELSE find_bi_from(fxs, 2, fxs[1], <<>>)

\* run: "if not bars: return []"
RunNoBars ==
    /\ pc = "run_start"
    /\ bars = <<>>
    /\ signals' = <<>>
    /\ pc' = "run_done"
    /\ UNCHANGED <<scoreVars, chan_bars, mergeVars, fxVars, biVars, zsVars, r_i,
                   res_1b, res_1s, current_bi, context, sig>>

\* run: the indicators are computed, merge_klines(bars) is called
RunMerge ==
    /\ pc = "run_start"
    /\ bars # <<>>
    /\ Len(calculate_atr(bars)) = Len(bars)
    /\ pc' = "merge_start"
    /\ UNCHANGED <<scoreVars, chan_bars, mergeVars, fxVars, biVars, zsVars, runVars>>

\* run: find_fractals(chan_bars) is called on the merger's result
RunFractals ==
    /\ pc = "merge_done"
    /\ pc' = "fx_start"
    /\ UNCHANGED <<scoreVars, chan_bars, mergeVars, fxVars, biVars, zsVars, runVars>>

\* run: bis = find_bi(chan_bars, fractals)
RunBi ==
    /\ pc = "fx_done"
    /\ bis' = find_bi(fractals)
    /\ pc' = "run_dynamics"
    /\ UNCHANGED <<scoreVars, chan_bars, mergeVars, fxVars, current_start_fx, fx,
                   b_n, zsVars, runVars>>

InitShortRun ==
    /\ pc = "run_start"
    /\ bars \in SeqsUpTo(PriceBars(3), MaxShortBars)
    /\ signals = <<>>
    /\ NoPipeline
    /\ NoScoring

\* on these inputs fewer than three strokes exist, so run returns at
\* "if len(bis) < 3"
NextShortRun ==
    \/ RunNoBars \/ RunMerge
    \/ MergeTooShort \/ MergeFirst \/ MergeInclude \/ MergeAppend \/ MergeReturn
    \/ RunFractals
    \/ FxTooShort \/ FxBegin \/ FxTop \/ FxBottom \/ FxNone \/ FxReturn
    \/ RunBi \/ ComputeBiDynamics \/ RunTooShort

SpecShortRun == InitShortRun /\ [][NextShortRun]_vars /\ WF_vars(NextShortRun)

\* ------------------------------------------------------------------ claims
AsBars(cb) == [k \in 1..Len(cb) |-> [high |-> cb[k].high, low |-> cb[k].low]]

\* C2: in every Merger output no two adjacent MergedBars contain one another,
\* and running the Merger again on its output merges nothing: every bar of the
\* second run has a single constituent and, when the output has at least the two
\* bars the Merger needs, the second run returns the same highs and lows.
C2_MergeIdempotent ==
    pc = "merge_done" =>
        /\ \A k \in 1..(Len(chan_bars) - 1) :
              ~IsInclusive(chan_bars[k + 1], chan_bars[k])
        /\ LET again == merge_klines(AsBars(chan_bars)) IN
              /\ \A k \in 1..Len(again) : Len(again[k].elements) = 1
              /\ Len(chan_bars) >= 2 => AsBars(again) = AsBars(chan_bars)

\* C2 witness: a finished run that folded a bar under a DOWN trend and still
\* has two MergedBars.
C2_Witness ==
    /\ pc = "merge_done"
    /\ Len(chan_bars) >= 2
    /\ current_trend = "DOWN"
    /\ Len(chan_bars[Len(chan_bars)].elements) >= 2

\* C1 (as claimed): for every pair of consecutive strokes, the start fractal of
\* the later stroke is the very fractal the earlier stroke ends at.
C1_StartIsPreviousEnd ==
    \A k \in 1..(Len(bis) - 1) : bis[k + 1].start_fx = bis[k].end_fx

\* The start of a stroke has the kind of the previous stroke's end, and does not
\* precede it.
C1_StartKindIsPreviousEndKind ==
    \A k \in 1..(Len(bis) - 1) :
        /\ bis[k + 1].start_fx.type = bis[k].end_fx.type
        /\ bis[k + 1].start_fx.index >= bis[k].end_fx.index

\* The opposite-kind fractal f fails the distance or the price-order test
\* against the anchor a.
FailsStrokeTest(f, a) ==
    /\ f.type # a.type
    /\ \/ f.index - a.index < 4
       \/ (a.type = "BOTTOM" /\ ~(f.price > a.price))
       \/ (a.type = "TOP" /\ ~(f.price < a.price))

\* C6: every emitted stroke ends at least 4 merged bars after it starts, an UP
\* stroke ends at a TOP priced strictly above its BOTTOM start and a DOWN stroke
\* at a BOTTOM priced strictly below its TOP start; and a step that consumes an
\* opposite-kind fractal failing either test keeps the anchor and emits nothing.
C6_StrokeInvariant ==
    [][ /\ \A k \in 1..Len(bis') :
             LET b == bis'[k] IN
             /\ b.end_fx.index - b.start_fx.index >= 4
             /\ Direction(b) \in {"UP", "DOWN"}
             /\ Direction(b) = b.type
             /\ Direction(b) = "UP" => b.end_fx.price > b.start_fx.price
             /\ Direction(b) = "DOWN" => b.end_fx.price < b.start_fx.price
        /\ (pc = "bi_loop" /\ b_n' = b_n + 1 /\ FailsStrokeTest(fx', current_start_fx))
             => (current_start_fx' = current_start_fx /\ bis' = bis) ]_vars

\* C6 witness: a stroke has been emitted and the fractal just consumed was an
\* opposite-kind one, far enough from the anchor, skipped for its price.
C6_Witness ==
    /\ pc = "bi_loop"
    /\ Len(bis) >= 1
    /\ fx # current_start_fx
    /\ fx.type # current_start_fx.type
    /\ fx.index - current_start_fx.index >= 4
    /\ current_start_fx = bis[Len(bis)].end_fx

\* [b.low, b.high] and [c.zd, c.zg] have a point in common.
Intersects(b, c) == BiLow(b) <= c.zg /\ BiHigh(b) >= c.zd

\* The example of the specification: three strokes with highs 110, 108, 112 and
\* lows 100, 103, 101, and a fourth spanning 90..95.
ExampleStrokes ==
    <<MkStroke("UP", 100, 110, 1), MkStroke("DOWN", 103, 108, 2),
      MkStroke("UP", 101, 112, 3), MkStroke("DOWN", 90, 95, 4)>>

\* C3: for every emitted Center c over strokes i..e, each stroke j with
\* i+3 <= j <= e intersects [zd, zg], and stroke e+1, if there is one, does not:
\* extension stops at the first stroke that misses the band and leaves it out.
\* On the example strokes zg = 108, zd = 103 and the fourth stroke is not absorbed.
C3_ExtensionStopsAtFirstMiss ==
    /\ \A n \in 1..Len(centers) :
          LET c == centers[n] IN
          /\ \A j \in (c.start_bi_index + 3)..c.end_bi_index :
                Intersects(BiAt(bis, j), c)
          /\ c.end_bi_index + 1 < Len(bis) =>
                ~Intersects(BiAt(bis, c.end_bi_index + 1), c)
    /\ ZG(ExampleStrokes, 0) = 108
    /\ ZD(ExampleStrokes, 0) = 103
    /\ ~IsOverlap(ExampleStrokes[4], ZhongShu(0, 2, 108, 103, "UP"))

\* C3 witness: an emitted Center that absorbed a fourth stroke and was ended by
\* a later stroke missing its band.
C3_Witness ==
    /\ pc = "zs_done"
    /\ \E n \in 1..Len(centers) :
          /\ centers[n].end_bi_index >= centers[n].start_bi_index + 3
          /\ centers[n].end_bi_index + 1 < Len(bis)

\* C4: consecutive emitted Centers cover disjoint, increasing stroke ranges:
\* the later one starts after the earlier one ends, and whenever the outer scan
\* is positioned it stands past the end of every Center emitted so far.
C4_CentersDisjoint ==
    /\ \A n \in 1..(Len(centers) - 1) :
          centers[n + 1].start_bi_index > centers[n].end_bi_index
    /\ \A n \in 1..Len(centers) :
          /\ centers[n].start_bi_index <= centers[n].end_bi_index
          /\ pc = "zs_scan" => z_i > centers[n].end_bi_index

\* C4 witness: two Centers have been emitted.
C4_Witness == pc = "zs_done" /\ Len(centers) >= 2

\* C5: every emitted Center has zg > zd, zg being the least high and zd the
\* greatest low of its first three strokes, and spans at least three strokes; so
\* no Center starts at a window whose least high is at or below its greatest low.
C5_CenterValid ==
    \A n \in 1..Len(centers) :
        LET c == centers[n]
            w == {BiAt(bis, c.start_bi_index + k) : k \in 0..2}
        IN  /\ c.zg > c.zd
            /\ c.end_bi_index - c.start_bi_index >= 2
            /\ c.end_bi_index < Len(bis)
            /\ \A b \in w : c.zg <= BiHigh(b) /\ c.zd >= BiLow(b)
            /\ \E b \in w : c.zg = BiHigh(b)
            /\ \E b \in w : c.zd = BiLow(b)

\* C5 witness: a Center was emitted after the scan passed a window whose least
\* high equals its greatest low.
C5_Witness ==
    /\ pc = "zs_done"
    /\ Len(centers) >= 1
    /\ centers[1].start_bi_index >= 1
    /\ ZG(bis, 0) = ZD(bis, 0)

HasTie(left, curr, right) ==
    \/ curr.high = left.high \/ curr.high = right.high
    \/ curr.low = left.low \/ curr.low = right.low

\* C7: every detected TOP fractal at index i has high and low strictly above
\* those of both neighbours (mirrored for BOTTOM), and an interior bar already
\* scanned that ties a neighbour in high or low has produced no fractal.
C7_FractalStrict ==
    /\ \A n \in 1..Len(fractals) :
          LET fr == fractals[n]
              left == chan_bars[fr.index]
              curr == chan_bars[fr.index + 1]
              right == chan_bars[fr.index + 2]
          IN  /\ fr.type = "TOP" =>
                    /\ curr.high > left.high /\ curr.high > right.high
                    /\ curr.low > left.low /\ curr.low > right.low
                    /\ fr.price = curr.high
              /\ fr.type = "BOTTOM" =>
                    /\ curr.low < left.low /\ curr.low < right.low
                    /\ curr.high < left.high /\ curr.high < right.high
                    /\ fr.price = curr.low
    /\ \A i \in 1..(f_i - 1) :
          (pc \in {"fx_loop", "fx_done"}
           /\ HasTie(chan_bars[i], chan_bars[i + 1], chan_bars[i + 2]))
          => \A n \in 1..Len(fractals) : fractals[n].index # i

\* C7 witness: a finished scan that found a TOP and passed over another interior
\* bar whose high ties its right neighbour's.
C7_Witness ==
    /\ pc = "fx_done"
    /\ \E n \in 1..Len(fractals) : fractals[n].type = "TOP"
    /\ \E i \in 1..(Len(chan_bars) - 2) :
          /\ chan_bars[i + 1].high = chan_bars[i + 2].high
          /\ \A n \in 1..Len(fractals) : fractals[n].index # i

\* the index i of the stroke a signal of run() was emitted for
StrokeOf(s) == CHOOSE i \in 0..(Len(bis) - 1) : BiAt(bis, i).end_fx.index = s.dt

SomeCenterEndsAt(t) == \E k \in 1..Len(centers) : centers[k].end_bi_index = t

SomeCenterEndsBefore(t) == \E k \in 1..Len(centers) : centers[k].end_bi_index < t

\* C8 (as stated): a class-1 or class-3 signal (1B, 1S, 3B, 3S) is emitted
\* for stroke i only if some Center has end_stroke_index = i-1.
C8_Class13NeedCenterEndingAtPrevious ==
    /\ \A k \in 1..Len(signals) :
          signals[k].type \in {"1B", "1S", "3B", "3S"}
              => SomeCenterEndsAt(StrokeOf(signals[k]) - 1)
    /\ pc = "check_1_done" /\ (res_1b # None \/ res_1s # None)
          => SomeCenterEndsAt(r_i - 1)

\* C8 (amended): a class-1 signal is emitted for stroke i only if some Center
\* has end_stroke_index = i-1; a class-3 signal is emitted for stroke i only
\* if some Center has end_stroke_index < i-1, i.e. ended before the leaving
\* stroke i-1.
C8_Class1AtPreviousClass3BeforeLeaving ==
    /\ \A k \in 1..Len(signals) :
          /\ signals[k].type \in {"1B", "1S"}
                => SomeCenterEndsAt(StrokeOf(signals[k]) - 1)
          /\ signals[k].type \in {"3B", "3S"}
                => SomeCenterEndsBefore(StrokeOf(signals[k]) - 1)
    /\ pc = "check_1_done" /\ (res_1b # None \/ res_1s # None)
          => SomeCenterEndsAt(r_i - 1)

\* a run has emitted a class-3 signal for a stroke that no Center ends
\* right before
C8_Witness ==
    /\ pc = "run_done"
    /\ \E k \in 1..Len(signals) :
          /\ signals[k].type \in {"3B", "3S"}
          /\ ~SomeCenterEndsAt(StrokeOf(signals[k]) - 1)
          /\ SomeCenterEndsBefore(StrokeOf(signals[k]) - 1)

\* the stroke under test by a direct call, and the strokes before Center c
CurrBi == BiAt(bis, r_i)

EnterBiOf(c) == BiAt(bis, c.start_bi_index - 1)

\* what C9 requires of a class-1 buy on the strokes of chan_strategy:
\* some Center ends right before the stroke, has an enter stroke, and the
\* stroke is a new low with less than 0.7 of the enter stroke's area
BuyConditions ==
    \E k \in 1..Len(centers) :
        /\ centers[k].end_bi_index = r_i - 1
        /\ centers[k].start_bi_index >= 1
        /\ Direction(CurrBi) = "DOWN"
        /\ BiLow(CurrBi) < centers[k].zd
        /\ BiLow(CurrBi) < BiLow(EnterBiOf(centers[k]))
        /\ 10 * CurrBi.macd_area < 7 * EnterBiOf(centers[k]).macd_area

SellConditions ==
    \E k \in 1..Len(centers) :
        /\ centers[k].end_bi_index = r_i - 1
        /\ centers[k].start_bi_index >= 1
        /\ Direction(CurrBi) = "UP"
        /\ BiHigh(CurrBi) > centers[k].zg
        /\ BiHigh(CurrBi) > BiHigh(EnterBiOf(centers[k]))
        /\ 10 * CurrBi.macd_area < 7 * EnterBiOf(centers[k]).macd_area

\* the stroke before the first stroke of the detector's latest center
EnterOfContext == find_enter_bi(context)

AreaShrinks ==
    10 * current_bi.macd_data.sum < 7 * EnterOfContext.macd_data.sum

PeakShrinks ==
    100 * current_bi.macd_data.diff_peak < 85 * EnterOfContext.macd_data.diff_peak

\* C9 (as stated): a class-1 buy is emitted for a DOWN stroke only if its low
\* is strictly below the Center's zd and below the enter stroke's low and its
\* momentum_area is strictly less than 0.7 times the enter stroke's
\* (symmetric with highs and zg for class-1 sell), whichever test emits it.
C9_Class1NeedsNewExtremeAndAreaShrink ==
    /\ pc = "check_1_done" /\ res_1b # None => BuyConditions
    /\ pc = "check_1_done" /\ res_1s # None => SellConditions
    /\ pc = "detect_1_done" /\ sig # None /\ sig.type = "1B" =>
          /\ EnterOfContext # None
          /\ current_bi.direction = "down"
          /\ current_bi.low < Last(context.zhongshu_list).ZD
          /\ current_bi.low < EnterOfContext.low
          /\ AreaShrinks
    /\ pc = "detect_1_done" /\ sig # None /\ sig.type = "1S" =>
          /\ EnterOfContext # None
          /\ current_bi.direction = "up"
          /\ current_bi.high > Last(context.zhongshu_list).ZG
          /\ current_bi.high > EnterOfContext.high
          /\ AreaShrinks

\* C9 (amended): check_1b_conditions / check_1s_conditions emit a class-1
\* signal only under the three stated conditions; detect_1B / detect_1S of
\* FirstClassSignalDetector emit one only if the stroke's low is strictly
\* below the latest Center's DD (high above its GG for sell) and either its
\* area is below 0.7 of the enter stroke's area or its diff peak is below
\* 0.85 of the enter stroke's diff peak.
C9_Class1ConditionsPerDetector ==
    /\ pc = "check_1_done" /\ res_1b # None => BuyConditions
    /\ pc = "check_1_done" /\ res_1s # None => SellConditions
    /\ pc = "detect_1_done" /\ sig # None /\ sig.type = "1B" =>
          /\ EnterOfContext # None
          /\ current_bi.direction = "down"
          /\ current_bi.low < Last(context.zhongshu_list).DD
          /\ AreaShrinks \/ PeakShrinks
    /\ pc = "detect_1_done" /\ sig # None /\ sig.type = "1S" =>
          /\ EnterOfContext # None
          /\ current_bi.direction = "up"
          /\ current_bi.high > Last(context.zhongshu_list).GG
          /\ AreaShrinks \/ PeakShrinks

\* detect_1S has emitted a class-1 sell for a stroke whose diff peak shrank
\* although its area did not
C9_Witness ==
    /\ pc = "detect_1_done"
    /\ sig # None /\ sig.type = "1S"
    /\ ~AreaShrinks /\ PeakShrinks

\* the stroke list with the area of stroke i replaced
WithArea(bs, i, a) == [bs EXCEPT ![i + 1].macd_area = a]

\* the stroke with its macd sum replaced
WithSum(bi, a) == [bi EXCEPT !.macd_data.sum = a]

\* the areas the leaving stroke is given
AreaGrid == {0, 6, 7, 10}

\* C10: with the Center, the enter stroke and the stroke's prices fixed, a
\* class-1 test that accepts the stroke with momentum_area a also accepts it
\* with every smaller area a2.
C10_DivergenceMonotone ==
    /\ pc \in {"check_1_call", "check_1_done"} =>
          \A a, a2 \in AreaGrid :
              a2 < a =>
                /\ check_1b_conditions(r_i, WithArea(bis, r_i, a), centers) # None
                      => check_1b_conditions(r_i, WithArea(bis, r_i, a2), centers) # None
                /\ check_1s_conditions(r_i, WithArea(bis, r_i, a), centers) # None
                      => check_1s_conditions(r_i, WithArea(bis, r_i, a2), centers) # None
    /\ pc \in {"detect_1_call", "detect_1_done"} =>
          \A a, a2 \in AreaGrid :
              a2 < a =>
                /\ detect_1B(WithSum(current_bi, a), context) # None
                      => detect_1B(WithSum(current_bi, a2), context) # None
                /\ detect_1S(WithSum(current_bi, a), context) # None
                      => detect_1S(WithSum(current_bi, a2), context) # None

\* check_1b_conditions has accepted a stroke of area 6; it is also accepted
\* with area 0, and rejected with area 7
C10_Witness ==
    /\ pc = "check_1_done"
    /\ res_1b # None /\ CurrBi.macd_area = 6
    /\ check_1b_conditions(r_i, WithArea(bis, r_i, 6), centers) # None
    /\ check_1b_conditions(r_i, WithArea(bis, r_i, 0), centers) # None
    /\ check_1b_conditions(r_i, WithArea(bis, r_i, 7), centers) = None

\* the detector's other tests pass: new extreme, divergence, and a score
\* that reaches 60
DetectorBuyReady ==
    /\ current_bi.direction = "down"
    /\ EnterOfContext # None
    /\ current_bi.low < Last(context.zhongshu_list).DD
    /\ AreaShrinks \/ PeakShrinks
    /\ calculate_1B_score(current_bi, context).num
          >= 60 * calculate_1B_score(current_bi, context).den

DetectorSellReady ==
    /\ current_bi.direction = "up"
    /\ EnterOfContext # None
    /\ current_bi.high > Last(context.zhongshu_list).GG
    /\ AreaShrinks \/ PeakShrinks
    /\ calculate_1B_score(current_bi, context).num
          >= 60 * calculate_1B_score(current_bi, context).den

\* the detector's trend context: the latest two centers descend / ascend
DownTrendContext ==
    LET zl == context.zhongshu_list
    IN  Len(zl) >= 2 /\ zl[Len(zl)].DD < zl[Len(zl) - 1].DD

UpTrendContext ==
    LET zl == context.zhongshu_list
    IN  Len(zl) >= 2 /\ zl[Len(zl)].GG > zl[Len(zl) - 1].GG

\* C11 (as stated): a stroke that satisfies the class-1 new-extreme and
\* divergence conditions yields a class-1 signal whether or not an earlier
\* Center in trend position exists, in either class-1 test.
C11_TrendAbsenceNeverSuppresses ==
    [][ /\ Check1B /\ BuyConditions => res_1b' # None
        /\ Check1S /\ SellConditions => res_1s' # None
        /\ Detect1B /\ DetectorBuyReady => sig' # None
        /\ Detect1S /\ DetectorSellReady => sig' # None ]_vars

\* C11 (amended): check_1b_conditions / check_1s_conditions yield the class-1
\* signal whether or not an earlier Center in trend position exists;
\* detect_1B / detect_1S of FirstClassSignalDetector yield it exactly when
\* the latest two Centers descend (ascend for sell), and yield nothing when
\* that trend context is absent.
C11_TrendAbsenceSuppressesInDetectorOnly ==
    [][ /\ Check1B /\ BuyConditions => res_1b' # None
        /\ Check1S /\ SellConditions => res_1s' # None
        /\ Detect1B /\ DetectorBuyReady => (sig' # None <=> DownTrendContext)
        /\ Detect1S /\ DetectorSellReady => (sig' # None <=> UpTrendContext) ]_vars

\* check_1b_conditions has returned a class-1 buy with is_trend false
C11_Witness ==
    /\ pc = "check_1_done"
    /\ res_1b # None /\ ~res_1b.is_trend
    /\ BuyConditions

\* stroke j of the run is a class-1 candidate of the given direction: it goes
\* the same way as stroke j-2, with less area and a new extreme
IsCandidateStroke(j, dir) ==
    /\ j >= 2
    /\ Direction(BiAt(bis, j)) = dir /\ Direction(BiAt(bis, j - 2)) = dir
    /\ BiAt(bis, j).macd_area < BiAt(bis, j - 2).macd_area
    /\ IF dir = "DOWN" THEN BiLow(BiAt(bis, j)) < BiLow(BiAt(bis, j - 2))
       ELSE BiHigh(BiAt(bis, j)) > BiHigh(BiAt(bis, j - 2))

\* the stroke two places before the detector's current stroke carries a
\* class-1 signal of type t
Class1TwoBack(t) ==
    \E c \in 3..Len(context.bi_list) :
        /\ context.bi_list[c] = current_bi
        /\ \E k \in 1..Len(context.signals) :
              /\ context.signals[k].type = t
              /\ context.signals[k].bi = context.bi_list[c - 2]

\* C12: a class-2 signal is emitted for stroke i only if stroke i-2 is the
\* stroke of a class-1 signal or class-1 candidate of the same side; a second
\* or later pullback never produces a class-2 signal.
C12_Class2NeedsClass1TwoBack ==
    /\ \A k \in 1..Len(signals) :
          /\ signals[k].type = "2B"
                => IsCandidateStroke(StrokeOf(signals[k]) - 2, "DOWN")
          /\ signals[k].type = "2S"
                => IsCandidateStroke(StrokeOf(signals[k]) - 2, "UP")
    /\ pc = "detect_2B_done" /\ sig # None => Class1TwoBack("1B")
    /\ pc = "detect_2S_done" /\ sig # None => Class1TwoBack("1S")

\* detect_2B has emitted a class-2 buy for the fifth stroke of a list in
\* which the first and the third stroke carry class-1 buys
C12_Witness ==
    /\ pc = "detect_2B_done"
    /\ sig # None /\ sig.type = "2B"
    /\ Len(context.bi_list) = 5 /\ current_bi = context.bi_list[5]
    /\ Len(context.signals) = 2

\* C13: a class-2 buy signal is emitted only if the current stroke's low is
\* strictly higher than the low of the earlier class-1 extreme (an equal low
\* is rejected); a class-2 sell requires a strictly lower high.
C13_Class2StrictlyInsideExtreme ==
    /\ \A k \in 1..Len(signals) :
          LET i == StrokeOf(signals[k])
          IN  /\ signals[k].type = "2B"
                    => BiLow(BiAt(bis, i)) > BiLow(BiAt(bis, i - 2))
              /\ signals[k].type = "2S"
                    => BiHigh(BiAt(bis, i)) < BiHigh(BiAt(bis, i - 2))
    /\ pc = "detect_2B_done" /\ sig # None =>
          current_bi.low > get_last_confirmed(context, "1B").price
    /\ pc = "detect_2S_done" /\ sig # None =>
          current_bi.high < get_last_confirmed(context, "1S").price

\* the Center a class-3 test of the run refers to at stroke i: the last one
\* that ended before the leaving stroke i-1
CenterBeforeLeaving(i) ==
    LET S == {k \in 1..Len(centers) : centers[k].end_bi_index < i - 1}
    IN  centers[CHOOSE k \in S : \A m \in S : m <= k]

\* the stroke before the detector's current stroke, the last of bi_list
PrevOfCurrent == context.bi_list[Len(context.bi_list) - 1]

\* C14: a class-3 buy signal is emitted for stroke i only if stroke i-1 (the
\* leaving stroke) is an UP stroke that broke above the Center's zg and stroke
\* i's low is strictly greater than zg; symmetric for sell with a DOWN
\* leaving stroke below zd and a high strictly below zd.
C14_Class3LeavingStrokeAndStrictPullback ==
    /\ \A k \in 1..Len(signals) :
          LET i == StrokeOf(signals[k])
          IN  /\ signals[k].type = "3B" =>
                    /\ Direction(BiAt(bis, i - 1)) = "UP"
                    /\ BiHigh(BiAt(bis, i - 1)) > CenterBeforeLeaving(i).zg
                    /\ BiLow(BiAt(bis, i)) > CenterBeforeLeaving(i).zg
              /\ signals[k].type = "3S" =>
                    /\ Direction(BiAt(bis, i - 1)) = "DOWN"
                    /\ BiLow(BiAt(bis, i - 1)) < CenterBeforeLeaving(i).zd
                    /\ BiHigh(BiAt(bis, i)) < CenterBeforeLeaving(i).zd
    /\ pc = "detect_3B_done" /\ sig # None =>
          /\ PrevOfCurrent.direction = "up"
          /\ PrevOfCurrent.high > Last(context.zhongshu_list).ZG
          /\ current_bi.low > Last(context.zhongshu_list).ZG
    /\ pc = "detect_3S_done" /\ sig # None =>
          /\ PrevOfCurrent.direction = "down"
          /\ PrevOfCurrent.low < Last(context.zhongshu_list).ZD
          /\ current_bi.high < Last(context.zhongshu_list).ZD

\* C15: for arbitrary feature inputs (dimension values outside 0..100
\* included) and arbitrary non-negative weights, the combined score returned
\* by calculate_score lies in the closed range [0, 100].
C15_CombinedScoreInRange ==
    pc = "score_done" => result >= 0 /\ result <= Points(100)

\* a scored signal of which one weighted dimension lies above 100 and another
\* below 0
C15_Witness ==
    /\ pc = "score_done"
    /\ \E d1, d2 \in DOMAIN weights :
          /\ weights[d1] > 0 /\ scorer_func(d1, signal) > Points(100)
          /\ weights[d2] > 0 /\ scorer_func(d2, signal) < 0
    /\ result > 0

\* 'structure' is the one weighted dimension: its weight is positive and
\* every other weight is zero or not configured
StructureOnly(w) ==
    /\ dict_get(w, "structure", 0) > 0
    /\ \A k \in 1..Len(Dimensions) :
          Dimensions[k] # "structure" => dict_get(w, Dimensions[k], 0) = 0

\* r is x rounded to the nearest hundredth of a point
NearestHundredth(r, x) ==
    /\ r % 100 = 0
    /\ 2 * (r - x) <= 100
    /\ 2 * (x - r) <= 100

\* C16 as stated: when every configured weight other than 'structure' is
\* zero, the combined score of any signal is exactly equal to that signal's
\* structure-dimension score.
C16_StructureOnlyEqualsStructureScore ==
    pc = "score_done" /\ StructureOnly(weights) =>
        result = calculate_dimension_score("structure", signal)

\* C16 amended: when every configured weight other than 'structure' is zero
\* and the weight of 'structure' is positive, the combined score is the
\* structure-dimension score clamped to [0, 100] and rounded to two decimals.
C16_StructureOnlyEqualsClampedRoundedStructureScore ==
    pc = "score_done" /\ StructureOnly(weights) =>
        NearestHundredth(result,
            Max2(0, Min2(Points(100),
                         calculate_dimension_score("structure", signal))))

\* a structure-only score of a signal whose structure-dimension score lies
\* inside (0, 100) with more than two decimals
C16_Witness ==
    /\ pc = "score_done"
    /\ StructureOnly(weights)
    /\ calculate_dimension_score("structure", signal) > 0
    /\ calculate_dimension_score("structure", signal) < Points(100)
    /\ calculate_dimension_score("structure", signal) % 100 # 0
    /\ result > 0

\* C17: Scorer weights that do not sum to 100 cause a hard validation failure
\* when the configuration is loaded; the Scorer never computes a score from
\* weights whose sum differs from 100 and never silently normalizes them.
C17_WeightsNotSummingTo100AreRejected ==
    /\ settings # None /\ config_yaml # None =>
          (settings = ValueError
              <=> SumValues(config_yaml.scorer.weights,
                            DOMAIN config_yaml.scorer.weights) # 100)
    /\ pc = "score_done" /\ config_yaml # None =>
          SumValues(weights, DOMAIN weights) = 100

\* the 0-100 scale the fields of ScorableSignal are documented or assumed
\* to be on
FeaturesOnScale(s) ==
    /\ s.structure_quality >= 0 /\ s.structure_quality <= Points(100)
    /\ s.divergence_score >= 0 /\ s.divergence_score <= Points(100)
    /\ s.position_level >= 0 /\ s.position_level <= Points(100)
    /\ s.momentum_val >= 0 /\ s.momentum_val <= Points(100)

\* C18 as stated: each of the eight scoring dimensions, computed on its own
\* for any signal, yields a value in the closed range [0, 100].
C18_DimensionScoreInRange ==
    pc = "dimension_done" => result >= 0 /\ result <= Points(100)

\* C18 amended: each of the eight scoring dimensions, computed on its own,
\* yields a value in [0, 100] for a signal whose structure_quality,
\* divergence_score, position_level and momentum_val lie in [0, 100].
C18_DimensionScoreInRangeOnScale ==
    pc = "dimension_done" /\ FeaturesOnScale(signal) =>
        result >= 0 /\ result <= Points(100)

\* the structure dimension of a complete structure of on-scale quality
C18_Witness ==
    /\ pc = "dimension_done"
    /\ FeaturesOnScale(signal)
    /\ dimension = "structure"
    /\ signal.is_structure_complete
    /\ result > Points(50)

\* the sum of weight times dimension score over the first k dimensions
RECURSIVE WeightedSum(_, _, _)
WeightedSum(w, s, k) ==
    IF k = 0 THEN 0
    ELSE WeightedSum(w, s, k - 1)
            + dict_get(w, Dimensions[k], 0)
                * calculate_dimension_score(Dimensions[k], s)

\* the same sum with every dimension score clamped to [0, 100]
RECURSIVE WeightedClampedSum(_, _, _)
WeightedClampedSum(w, s, k) ==
    IF k = 0 THEN 0
    ELSE WeightedClampedSum(w, s, k - 1)
            + dict_get(w, Dimensions[k], 0)
                * Max2(0, Min2(Points(100),
                               calculate_dimension_score(Dimensions[k], s)))

SumsTo100(w) == SumValues(w, DOMAIN w) = 100

\* the example: weights {structure: 50, divergence: 50}, structure score 80,
\* divergence score 60
ExampleScores ==
    /\ weights = [structure |-> 50, divergence |-> 50]
    /\ calculate_dimension_score("structure", signal) = Points(80)
    /\ calculate_dimension_score("divergence", signal) = Points(60)

\* C19 as stated: with weights summing to 100, the final score equals the sum
\* over dimensions of weight times dimension score divided by 100, zero-weight
\* dimensions contributing nothing; weights {structure: 50, divergence: 50}
\* with structure score 80 and divergence score 60 give exactly 70.0.
C19_FinalScoreIsWeightedSumOver100 ==
    pc = "score_done" /\ SumsTo100(weights) =>
        /\ 100 * result = WeightedSum(weights, signal, Len(Dimensions))
        /\ ExampleScores => result = Points(70)

\* C19 amended: with non-negative weights summing to 100, the final score is
\* the sum over dimensions of weight times dimension score clamped to
\* [0, 100], divided by 100 and rounded to two decimals; the example gives
\* exactly 70.0.
C19_FinalScoreIsRoundedClampedWeightedSumOver100 ==
    pc = "score_done" /\ SumsTo100(weights)
        /\ (\A d \in DOMAIN weights : weights[d] >= 0) =>
        /\ result % 100 = 0
        /\ 2 * (100 * result
                  - WeightedClampedSum(weights, signal, Len(Dimensions))) <= 10000
        /\ 2 * (WeightedClampedSum(weights, signal, Len(Dimensions))
                  - 100 * result) <= 10000
        /\ ExampleScores => result = Points(70)

\* the example has been scored
C19_Witness ==
    /\ pc = "score_done"
    /\ ExampleScores
    /\ result = Points(70)

\* the final score the Filter reads from the signal
FinalScore == dict_get(signal.meta, "final_score", 0)

\* C20: under default configuration the minimum-score threshold applied to
\* Signals is 60: a Signal whose final weighted score is below 60 does not
\* pass the Filter stage, and a Signal whose final score is 60 or more is not
\* dropped on score grounds (when the checks before the score check pass, the
\* score check passes).
C20_DefaultMinimumScoreIs60 ==
    pc = "filter_done" =>
        /\ FinalScore < Points(60) => result = FALSE
        /\ FinalScore >= Points(60)
              /\ check_mandatory_conditions(settings.filter, signal)
              /\ check_exclusion_conditions(settings.filter, signal,
                                            market_context)
              => check_score_threshold(settings.filter, signal)

\* the five gates of the Filter in their order, and whether each one passes
GateOrder == <<"mandatory", "exclusion", "score", "market_state", "risk">>

GatePasses(g) ==
    CASE g = "mandatory" -> check_mandatory_conditions(settings.filter, signal)
      [] g = "exclusion" ->
            check_exclusion_conditions(settings.filter, signal, market_context)
      [] g = "score" -> check_score_threshold(settings.filter, signal)
      [] g = "market_state" -> check_market_state(signal, market_context)
      [] g = "risk" -> risk_management_check(signal, market_context)

\* C21: the Filter accepts a signal if and only if all five gates pass,
\* evaluated in the order hard conditions, exclusion conditions, score
\* threshold, market state, risk; evaluation stops at the first failing gate
\* and the signal is rejected without evaluating later gates.
C21_FilterAcceptsIffAllGatesInOrder ==
    pc = "filter_done" =>
        /\ result <=> \A k \in 1..Len(GateOrder) : GatePasses(GateOrder[k])
        /\ Len(gates) >= 1
        /\ gates = SubSeq(GateOrder, 1, Len(gates))
        /\ \A k \in 1..(Len(gates) - 1) : GatePasses(gates[k])
        /\ ~result => ~GatePasses(gates[Len(gates)])
        /\ result => Len(gates) = Len(GateOrder)

\* a signal rejected at the exclusion gate whose score would have failed too
C21_Witness ==
    /\ pc = "filter_done"
    /\ result = FALSE
    /\ gates = <<"mandatory", "exclusion">>
    /\ ~GatePasses("score")

\* C22: confirm_signal confirms a signal exactly when the number of satisfied
\* conditions of its type's checklist reaches the threshold: 3 of the 4
\* conditions for 1B and 1S, 2 for 2B, 2S, 3B and 3S; a signal of any other
\* type is not confirmed.
C22_ConfirmedIffChecklistReachesThreshold ==
    pc = "confirm_done" =>
        LET conds == confirmation_conditions(signal, market_context)
        IN  /\ signal.signal_type \in {"1B", "1S"} => Len(conds) = 4
            /\ result =
                  \/ /\ signal.signal_type \in {"1B", "1S"}
                     /\ Satisfied(conds) >= 3
                  \/ /\ signal.signal_type \in {"2B", "2S", "3B", "3S"}
                     /\ Satisfied(conds) >= 2

C22_Witness ==
    /\ pc = "confirm_done"
    /\ signal.signal_type = "1B"
    /\ Satisfied(confirmation_conditions(signal, market_context)) = 2
    /\ result = FALSE

C29_NoEvidenceIsNeverConfirmed ==
    pc = "confirm_done" /\ market_context = EmptyDict => result = FALSE

\* C27: in a run_once cycle a signal is notified only when the latest
\* recorded signal's time is strictly greater than the time of the signal
\* notified last (at most one notification per cycle, of the latest signal);
\* a cycle whose latest signal is the one notified last sends nothing; a
\* cycle without bars runs no analysis and sends nothing.
C27_NotifyOnlyStrictlyNewerSignal ==
    [][/\ sent' # sent =>
            /\ signals' # <<>>
            /\ sent' = Append(sent, signals'[Len(signals')].time)
            /\ sent # <<>> => signals'[Len(signals')].time > sent[Len(sent)]
       /\ (n_cycle' # n_cycle /\ signals' # <<>> /\ sent # <<>>
            /\ signals'[Len(signals')].time = sent[Len(sent)]) => sent' = sent
       /\ (n_cycle' # n_cycle /\ bars' = <<>>) =>
            n_analyze' = n_analyze /\ sent' = sent]_vars

C27_Witness ==
    /\ pc = "rt_idle"
    /\ n_cycle = 3
    /\ n_analyze = 2
    /\ sent = <<2>>
    /\ last_signal_time = [at |-> 2]
    /\ signals # <<>>
    /\ signals[Len(signals)].time = 2

\* C30: after a strong signal of a direction was notified and recorded at
\* bar index k, a later strong signal of the same direction notified at bar
\* index m has m - k >= cooldown_bars, unless a strong signal of another
\* direction was notified and recorded between the two.
C30_SameDirectionWaitsForCooldown ==
    \A i \in 1..Len(pushed) : \A j \in (i + 1)..Len(pushed) :
        (/\ pushed[i].recorded
         /\ pushed[j].direction = pushed[i].direction
         /\ pushed[j].bar_index - pushed[i].bar_index < args.cooldown_bars)
        => \E l \in (i + 1)..(j - 1) :
              pushed[l].recorded /\ pushed[l].direction # pushed[i].direction

C30_Witness ==
    /\ pc = "monitor_idle"
    /\ args.cooldown_bars = 2
    /\ Len(pushed) >= 2
    /\ pushed[1].recorded
    /\ pushed[2].direction = pushed[1].direction
    /\ pushed[2].bar_index = pushed[1].bar_index + 2
    /\ n_run > Len(pushed)

\* the constituent-index lists of the ChanBars, concatenated in output order
RECURSIVE ConcatElements(_)
ConcatElements(cb) ==
    IF cb = <<>> THEN <<>> ELSE Head(cb).elements \o ConcatElements(Tail(cb))

\* cb partitions the raw indices 0..n-1 into non-empty consecutive runs, and
\* each bar's index is the last index of its run
PartitionsRawBars(cb, n) ==
    /\ ConcatElements(cb) = [k \in 1..n |-> k - 1]
    /\ \A k \in 1..Len(cb) :
          /\ cb[k].elements # <<>>
          /\ \A e \in 1..(Len(cb[k].elements) - 1) :
                cb[k].elements[e + 1] = cb[k].elements[e] + 1
          /\ cb[k].index = cb[k].elements[Len(cb[k].elements)]

\* C28 as stated: for every non-empty input of n bars the constituent lists of
\* the output, concatenated, are 0..n-1, each a non-empty run of consecutive
\* indices ending at the bar's index.
C28_ElementsPartitionEveryNonEmptyInput ==
    (pc = "merge_done" /\ Len(bars) >= 1) =>
        PartitionsRawBars(chan_bars, Len(bars))

\* C28 as the code has it: the same for every input of at least two bars.
C28_ElementsPartitionInputOfTwoOrMore ==
    (pc = "merge_done" /\ Len(bars) >= 2) =>
        PartitionsRawBars(chan_bars, Len(bars))

C28_Witness ==
    /\ pc = "merge_done"
    /\ Len(bars) >= 4
    /\ Len(chan_bars) >= 2
    /\ \E k \in 1..Len(chan_bars) : Len(chan_bars[k].elements) >= 2

\* C25: every emitted Center that does not start at the first stroke has the
\* direction of its entering stroke, the stroke just before its first stroke.
C25_CenterDirectionIsEnteringStroke ==
    pc = "zs_done" =>
        \A n \in 1..Len(centers) :
            centers[n].start_bi_index >= 1 =>
                centers[n].direction =
                    Direction(BiAt(bis, centers[n].start_bi_index - 1))

\* C26: every fractal that _identify_bis detects on the merged bars has a
\* middle bar whose high and low are both strictly above those of both
\* neighbours (top), or both strictly below (bottom).
C26_DetectorFractalsStrictOnHighAndLow ==
    pc = "analyze_done" =>
        \A n \in 1..Len(fractals) :
            LET curr == chan_bars[fractals[n].index + 1]
                prev == chan_bars[fractals[n].index]
                next_b == chan_bars[fractals[n].index + 2]
            IN  IF fractals[n].type = "top"
                  THEN /\ curr.high > prev.high /\ curr.high > next_b.high
                       /\ curr.low > prev.low /\ curr.low > next_b.low
                  ELSE /\ curr.high < prev.high /\ curr.high < next_b.high
                       /\ curr.low < prev.low /\ curr.low < next_b.low

C26_Witness ==
    /\ pc = "analyze_done"
    /\ Len(bars) > Len(chan_bars)
    /\ \E n \in 1..Len(fractals) : fractals[n].type = "top"
    /\ \E n \in 1..Len(fractals) : fractals[n].type = "bottom"

\* the positions of run after each stage has returned
AfterMerge ==
    {"merge_done", "fx_start", "fx_loop", "fx_done", "run_dynamics",
     "run_centers", "run_done"}
AfterFractals == {"fx_done", "run_dynamics", "run_centers", "run_done"}
AfterBi == {"run_dynamics", "run_centers", "run_done"}

\* a stage given fewer inputs than it needs has returned an empty result
SparseStagesReturnEmpty ==
    /\ (pc \in AfterMerge /\ Len(bars) < 2) => chan_bars = <<>>
    /\ (pc \in AfterFractals /\ Len(chan_bars) < 3) => fractals = <<>>
    /\ (pc \in AfterBi /\ Len(fractals) < 2) => bis = <<>>
    /\ (pc = "run_done" /\ Len(bis) < 3) => centers = <<>> /\ signals = <<>>

====
